---- MODULE Spec2Model ----
(***************************************************************************)
(* Verification model of the HyperSpy file-format I/O layer:               *)
(*   - the HDF5 dictionary-tree codec   (hyperspy/io_plugins/hdf5.py)      *)
(*   - the readers' file-handle life cycle (hdf5.py, mrc.py, tifffile.py)  *)
(*   - the TIFF directory / tag reader  (hyperspy/external/tifffile.py)    *)
(*   - the OME multi-file series        (hyperspy/external/tifffile.py)    *)
(*   - the DM3/DM4 tag-tree decoder     (io_plugins/digital_micrograph.py) *)
(* Each part has its own variables, initial condition, next-state relation *)
(* and specification; the variables of the other parts stay idle.          *)
(***************************************************************************)
EXTENDS Integers, Sequences, FiniteSets, TLC

VARIABLES
    h_pc, h_dict, h_group, h_out,                 \* HDF5 codec
    r_reader, r_pc, r_file, r_idx, r_open, r_opened,  \* one read call of a reader
    d_pc, d_version, d_endian, d_ops, d_stack, d_err,   \* DM3/DM4 parse
    t_pc, t_osize, t_numtags, t_tags, t_tag, t_i, t_iter, t_cursor, t_read,
    t_tagcode, t_warned,
                                                  \* TIFF directory (one IFD)
    c_pc, c_file, c_cursor, c_pages, c_err,       \* TIFF IFD chain
    o_pc, o_cfg, o_files, o_open, o_tif, o_ifds, o_series, o_failed, o_err,
    o_idx, o_parent,
                                                  \* OME multi-file series
    p_pc, p_in, p_out,                            \* one call of a function
    w_pc, w_in, w_cfg, w_file, w_pos, w_ifd_offset, w_software, w_log, w_out
                                                  \* a TiffWriter and its file

hvars == <<h_pc, h_dict, h_group, h_out>>
rvars == <<r_reader, r_pc, r_file, r_idx, r_open, r_opened>>
dvars == <<d_pc, d_version, d_endian, d_ops, d_stack, d_err>>
tvars == <<t_pc, t_osize, t_numtags, t_tags, t_tag, t_i, t_iter, t_cursor, t_read,
          t_tagcode, t_warned>>
cvars == <<c_pc, c_file, c_cursor, c_pages, c_err>>
ovars == <<o_pc, o_cfg, o_files, o_open, o_tif, o_ifds, o_series, o_failed, o_err,
          o_idx, o_parent>>
pvars == <<p_pc, p_in, p_out>>
wvars == <<w_pc, w_in, w_cfg, w_file, w_pos, w_ifd_offset, w_software, w_log, w_out>>
vars == <<hvars, rvars, dvars, tvars, cvars, ovars, pvars, wvars>>

(***************************************************************************)
(* Idle values of each part (used by the specifications of the others).    *)
(***************************************************************************)
HIdle == h_pc = "idle" /\ h_dict = <<>> /\ h_group = <<>> /\ h_out = <<>>
RIdle == r_reader = "none" /\ r_pc = "idle" /\ r_file = <<>> /\ r_idx = 0
         /\ r_open = FALSE /\ r_opened = FALSE
DIdle == d_pc = "idle" /\ d_version = 0 /\ d_endian = "none"
         /\ d_ops = <<>> /\ d_stack = <<>> /\ d_err = "none"
TIdle == t_pc = "idle" /\ t_osize = 0 /\ t_numtags = 0 /\ t_tags = <<>>
         /\ t_tag = <<>> /\ t_i = 0 /\ t_iter = 0 /\ t_cursor = 0 /\ t_read = 0
         /\ t_tagcode = 0 /\ t_warned = FALSE
CIdle == c_pc = "idle" /\ c_file = <<>> /\ c_cursor = 0 /\ c_pages = <<>>
         /\ c_err = "none"
OIdle == o_pc = "idle" /\ o_cfg = <<>> /\ o_files = {} /\ o_open = {}
         /\ o_tif = "none" /\ o_ifds = <<>> /\ o_series = "none"
         /\ o_failed = "none" /\ o_err = "none" /\ o_idx = 0 /\ o_parent = "none"
PIdle == p_pc = "idle" /\ p_in = <<>> /\ p_out = <<>>
WIdle == w_pc = "idle" /\ w_in = <<>> /\ w_cfg = <<>> /\ w_file = <<>> /\ w_pos = 0
         /\ w_ifd_offset = 0 /\ w_software = FALSE /\ w_log = <<>> /\ w_out = <<>>

(***************************************************************************)
(* Strings are sequences of one-character strings, so that prefixes,       *)
(* slices, str(i) and the lexicographic order of sorted() are computed.    *)
(***************************************************************************)
DigitChar == <<"0", "1", "2", "3", "4", "5", "6", "7", "8", "9">>

\* code points of the characters the keys of the model are made of
Ord(c) ==
    CASE c = "0" -> 48 [] c = "1" -> 49 [] c = "2" -> 50 [] c = "3" -> 51
      [] c = "4" -> 52 [] c = "5" -> 53 [] c = "6" -> 54 [] c = "7" -> 55
      [] c = "8" -> 56 [] c = "9" -> 57 [] c = "-" -> 45 [] c = "_" -> 95
      [] c = "a" -> 97 [] c = "b" -> 98 [] c = "d" -> 100 [] c = "e" -> 101
      [] c = "g" -> 103 [] c = "i" -> 105 [] c = "k" -> 107 [] c = "l" -> 108
      [] c = "m" -> 109 [] c = "n" -> 110 [] c = "o" -> 111 [] c = "p" -> 112
      [] c = "r" -> 114 [] c = "s" -> 115 [] c = "t" -> 116 [] c = "u" -> 117
      [] c = "x" -> 120 [] c = "y" -> 121
      [] OTHER -> 63

RECURSIVE PyStr(_)
\* unicode(i) of a non-negative integer: its decimal digits
PyStr(i) ==
    IF i < 10 THEN <<DigitChar[i + 1]>>
    ELSE PyStr(i \div 10) \o <<DigitChar[(i % 10) + 1]>>

StartsWith(key, prefix) ==
    /\ Len(key) >= Len(prefix)
    /\ SubSeq(key, 1, Len(prefix)) = prefix

\* key[a:] for a >= 0
SliceFrom(key, a) == SubSeq(key, a + 1, Len(key))

\* s.find(c): index of the first occurrence of c, -1 when there is none
PyFind(s, c) ==
    IF \E j \in 1..Len(s) : s[j] = c
    THEN (CHOOSE j \in 1..Len(s) : s[j] = c /\ \A q \in 1..(j - 1) : s[q] # c) - 1
    ELSE -1

RECURSIVE StrLess(_, _)
\* a < b for two unicode strings (code-point lexicographic order)
StrLess(a, b) ==
    IF Len(a) = 0 THEN Len(b) > 0
    ELSE IF Len(b) = 0 THEN FALSE
    ELSE IF Ord(a[1]) # Ord(b[1]) THEN Ord(a[1]) < Ord(b[1])
    ELSE StrLess(Tail(a), Tail(b))

RECURSIVE SortedKeys(_)
\* sorted() of a set of distinct unicode keys
SortedKeys(S) ==
    IF S = {} THEN <<>>
    ELSE LET least == CHOOSE k \in S : \A o \in S \ {k} : StrLess(k, o)
         IN  <<least>> \o SortedKeys(S \ {least})

(***************************************************************************)
(* Python values.  Every value is a record of the same five fields:        *)
(*   t  the Python type, n an integer payload, s a string payload,         *)
(*   e  the elements of a list, tuple or array,                            *)
(*   m  the items of a dict (or the parts of a Signal) as <<key, value>>.  *)
(***************************************************************************)
PyVal(t, n, s, e, m) == [t |-> t, n |-> n, s |-> s, e |-> e, m |-> m]
PyNone == PyVal("None", 0, <<>>, <<>>, <<>>)
PyBool(b) == PyVal("bool", b, <<>>, <<>>, <<>>)
PyInt(i) == PyVal("int", i, <<>>, <<>>, <<>>)
PyFloat(i) == PyVal("float", i, <<>>, <<>>, <<>>)        \* the float i.0
PyUnicode(s) == PyVal("unicode", 0, s, <<>>, <<>>)
PyBytes(s) == PyVal("str", 0, s, <<>>, <<>>)             \* Python 2 str
PyDate(i) == PyVal("date", i, <<>>, <<>>, <<>>)          \* datetime.date
PyList(e) == PyVal("list", 0, <<>>, e, <<>>)
PyTuple(e) == PyVal("tuple", 0, <<>>, e, <<>>)
PyDict(m) == PyVal("dict", 0, <<>>, <<>>, m)
NdArray(dtype, e) == PyVal("ndarray", 0, <<dtype>>, e, <<>>)
NpVoid(s) == PyVal("void", 0, s, <<>>, <<>>)             \* numpy.void
PySignal(m) == PyVal("Signal", 0, <<>>, <<>>, m)
AxesManager(e) == PyVal("AxesManager", 0, <<>>, e, <<>>)

NUL == "NUL"                                  \* the character '\x00'

DictKeys(m) == {m[j][1] : j \in DOMAIN m}
DictGet(m, k) == m[CHOOSE j \in DOMAIN m : m[j][1] = k][2]
RECURSIVE SeqOfSet(_)
\* the elements of a finite set, listed in some order
SeqOfSet(S) ==
    IF S = {} THEN <<>>
    ELSE LET x == CHOOSE y \in S : TRUE IN <<x>> \o SeqOfSet(S \ {x})
\* the dict of a function from keys to values
DictOfFn(f) ==
    LET ks == SeqOfSet(DOMAIN f)
    IN  [j \in 1..Len(ks) |-> <<ks[j], f[ks[j]]>>]
\* the function with the pairs of a set of <<key, value>>
FnOfPairs(P) ==
    [k \in {p[1] : p \in P} |-> (CHOOSE p \in P : p[1] = k)[2]]

\* the string constants of the codec
S_None == <<"_", "N", "o", "n", "e", "_">>
S_sig == <<"_", "s", "i", "g", "_">>
S_list == <<"_", "l", "i", "s", "t", "_">>
S_tuple == <<"_", "t", "u", "p", "l", "e", "_">>
S_list_empty == S_list \o <<"e", "m", "p", "t", "y", "_">>
S_tuple_empty == S_tuple \o <<"e", "m", "p", "t", "y", "_">>
S_bs == <<"_", "b", "s", "_">>
S_datetime == <<"_", "d", "a", "t", "e", "t", "i", "m", "e", "_">>
S_AxesManager == <<"_", "h", "s", "p", "y", "_", "A", "x", "e", "s", "M",
                   "a", "n", "a", "g", "e", "r", "_">>
S_axis == <<"a", "x", "i", "s", "-">>
S_data == <<"d", "a", "t", "a">>
S_axes == <<"a", "x", "e", "s">>
S_metadata == <<"m", "e", "t", "a", "d", "a", "t", "a">>
S_original_metadata == <<"o", "r", "i", "g", "i", "n", "a", "l", "_">> \o S_metadata
S_learning_results == <<"l", "e", "a", "r", "n", "i", "n", "g", "_",
                        "r", "e", "s", "u", "l", "t", "s">>
S_General == <<"G", "e", "n", "e", "r", "a", "l">>
S_title == <<"t", "i", "t", "l", "e">>
S_unnamed == <<"_", "_", "u", "n", "n", "a", "m", "e", "d", "_", "_">>

RECURSIVE PyReplaceAll(_, _)
\* key.replace(pat, u"")
PyReplaceAll(key, pat) ==
    IF Len(key) = 0 THEN <<>>
    ELSE IF StartsWith(key, pat) THEN PyReplaceAll(SliceFrom(key, Len(pat)), pat)
    ELSE <<key[1]>> \o PyReplaceAll(Tail(key), pat)

\* repr(datetime.date) and the eval() of it
S_date_open == <<"d", "a", "t", "e", "(">>
DigitValue(c) == CHOOSE v \in 0..9 : DigitChar[v + 1] = c
RECURSIVE PyInt10(_)
PyInt10(digits) ==
    IF Len(digits) = 0 THEN 0
    ELSE 10 * PyInt10(SubSeq(digits, 1, Len(digits) - 1))
         + DigitValue(digits[Len(digits)])
PyRepr(value) == S_date_open \o PyStr(value.n) \o <<")">>
PyEval(s) == PyDate(PyInt10(SubSeq(s, Len(S_date_open) + 1, Len(s) - 1)))

(***************************************************************************)
(* numpy.array(value) of a Python list or tuple, as parse_structure uses   *)
(* it: the dtype it infers, the dimension, and the converted elements.     *)
(***************************************************************************)
IsNumber(v) == v.t \in {"bool", "int", "float"}
IsString(v) == v.t \in {"str", "unicode"}
\* an element that makes the array multi-dimensional or of dtype object
IsObject(v) == ~IsNumber(v) /\ ~IsString(v)

NpDtype(e) ==
    IF \E j \in DOMAIN e : IsObject(e[j]) THEN "O"
    ELSE IF \E j \in DOMAIN e : e[j].t = "unicode" THEN "U"
    ELSE IF \E j \in DOMAIN e : e[j].t = "str" THEN "S"
    ELSE IF \E j \in DOMAIN e : e[j].t = "float" THEN "float"
    ELSE IF \E j \in DOMAIN e : e[j].t = "int" THEN "int"
    ELSE "bool"

\* the text of an element cast to a string dtype
NpStr(v) ==
    CASE v.t = "float" -> PyStr(v.n) \o <<".", "0">>
      [] v.t \in {"bool", "int"} -> PyStr(v.n)
      [] OTHER -> v.s

\* one element cast to the array's dtype
NpCast(dtype, v) ==
    CASE dtype = "U" -> PyUnicode(NpStr(v))
      [] dtype = "S" -> PyBytes(NpStr(v))
      [] dtype = "float" -> PyFloat(v.n)
      [] dtype = "int" -> PyInt(v.n)
      [] OTHER -> v

NpArray(e) == NdArray(NpDtype(e), [j \in DOMAIN e |-> NpCast(NpDtype(e), e[j])])
\* ndarray.tolist()
ToList(a) == a.e

(***************************************************************************)
(* The HDF5 store: a node is a group or a dataset,                         *)
(*   [kind, attrs : name -> value, items : name -> node, data].            *)
(***************************************************************************)
HdfNode(kind, attrs, items, data) ==
    [kind |-> kind, attrs |-> attrs, items |-> items, data |-> data]
Dataset(data) == HdfNode("dataset", <<>>, <<>>, data)

RECURSIVE Dict2HdfGroup(_)
RECURSIVE WriteSignal(_)
RECURSIVE ExportItem(_, _)

\* parse_structure: is the container exported as an indexed sub-mapping
IsSubMapping(value) ==
    \/ \E j \in DOMAIN value.e : value.e[j].t = "Signal"
    \/ NpDtype(value.e) = "O"

\* dict(izip([unicode(i) for i in xrange(len(value))], value))
IndexedDict(e) == [j \in DOMAIN e |-> <<PyStr(j - 1), e[j]>>]

\* the attribute <<name, value>> written for one dictionary item, or <<>>
ExportAttr(key, value) ==
    CASE value.t = "None" -> <<key, PyUnicode(S_None)>>
      [] value.t = "str" ->
            IF \E j \in DOMAIN value.s : value.s[j] = NUL
            THEN <<S_bs \o key, NpVoid(value.s)>>
            ELSE <<key, PyUnicode(value.s)>>
      [] value.t = "unicode" -> <<key, value>>
      [] value.t = "date" -> <<S_datetime \o key, PyUnicode(PyRepr(value))>>
      [] value.t = "list" /\ Len(value.e) = 0 ->
            <<S_list_empty \o key, PyUnicode(S_None)>>
      [] value.t = "tuple" /\ Len(value.e) = 0 ->
            <<S_tuple_empty \o key, PyUnicode(S_None)>>
      [] value.t \in {"bool", "int", "float"} -> <<key, value>>
      [] OTHER -> <<>>

\* the group member <<name, node>> written for one dictionary item, or <<>>
ExportItem(key, value) ==
    CASE value.t = "dict" -> <<key, Dict2HdfGroup(value.m)>>
      [] value.t = "Signal" ->
            IF StartsWith(key, S_sig) THEN <<key, WriteSignal(value)>>
            ELSE <<S_sig \o key, WriteSignal(value)>>
      [] value.t = "ndarray" -> <<key, Dataset(value)>>
      [] value.t = "AxesManager" ->
            <<S_AxesManager \o key,
              Dict2HdfGroup([j \in DOMAIN value.e |->
                                <<S_axis \o PyStr(j - 1), value.e[j]>>])>>
      [] value.t \in {"list", "tuple"} /\ Len(value.e) > 0 ->
            LET type == IF value.t = "list" THEN S_list ELSE S_tuple
            IN  IF IsSubMapping(value)
                THEN <<type \o PyStr(Len(value.e)) \o <<"_">> \o key,
                       Dict2HdfGroup(IndexedDict(value.e))>>
                ELSE <<type \o key, Dataset(NpArray(value.e))>>
      [] OTHER -> <<>>

\* dict2hdfgroup(dictionary, group): the group it fills
Dict2HdfGroup(dictionary) ==
    LET attrs == {ExportAttr(dictionary[j][1], dictionary[j][2]) :
                    j \in DOMAIN dictionary} \ {<<>>}
        items == {ExportItem(dictionary[j][1], dictionary[j][2]) :
                    j \in DOMAIN dictionary} \ {<<>>}
    IN  HdfNode("group", FnOfPairs(attrs), FnOfPairs(items), PyNone)

\* write_signal(signal, group): the group it fills
WriteSignal(signal) ==
    LET sm == signal.m
        axes == DictGet(sm, S_axes).e
        parts ==
            {<<S_data, Dataset(DictGet(sm, S_data))>>,
             <<S_metadata, Dict2HdfGroup(DictGet(sm, S_metadata).m)>>,
             <<S_original_metadata,
               Dict2HdfGroup(DictGet(sm, S_original_metadata).m)>>,
             <<S_learning_results,
               Dict2HdfGroup(DictGet(sm, S_learning_results).m)>>}
            \cup {<<S_axis \o PyStr(j - 1), Dict2HdfGroup(axes[j].m)>> :
                    j \in DOMAIN axes}
    IN  HdfNode("group", <<>>, FnOfPairs(parts), PyNone)

RECURSIVE HdfGroup2Dict(_)
RECURSIVE HdfGroup2SignalDict(_)
RECURSIVE ImportItem(_, _)

\* [i for k, i in sorted(iter(dictionary.items()))]
SortedValues(dictionary) ==
    LET ks == SortedKeys(DictKeys(dictionary))
    IN  [j \in 1..Len(ks) |-> DictGet(dictionary, ks[j])]

\* the dictionary item <<key, value>> read from one attribute, or <<>>
ImportAttr(key, attr) ==
    LET value == IF attr.t = "unicode" /\ attr.s = S_None THEN PyNone ELSE attr
    IN  CASE StartsWith(key, S_sig) -> <<>>
          [] StartsWith(key, S_list_empty) ->
                <<SliceFrom(key, Len(S_list_empty)), PyList(<<>>)>>
          [] StartsWith(key, S_tuple_empty) ->
                <<SliceFrom(key, Len(S_tuple_empty)), PyTuple(<<>>)>>
          [] StartsWith(key, S_bs) ->
                <<SliceFrom(key, Len(S_bs)), PyBytes(value.s)>>
          [] StartsWith(key, S_datetime) ->
                <<PyReplaceAll(key, S_datetime), PyEval(value.s)>>
          [] OTHER -> <<key, value>>

\* dict2signal (hyperspy.io): the Signal built from a signal dictionary
Dict2Signal(exp) == PySignal(exp)

\* the dictionary item <<key, value>> read from one member of a group
ImportItem(key, node) ==
    IF StartsWith(key, S_sig)
    THEN <<SliceFrom(key, Len(S_sig)), Dict2Signal(HdfGroup2SignalDict(node))>>
    ELSE IF node.kind = "dataset"
    THEN IF StartsWith(key, S_list)
         THEN <<SliceFrom(key, 6), PyList(ToList(node.data))>>
         ELSE IF StartsWith(key, S_tuple)
         THEN <<SliceFrom(key, 7), PyTuple(ToList(node.data))>>
         ELSE <<key, node.data>>
    ELSE IF StartsWith(key, S_AxesManager)
    THEN <<SliceFrom(key, Len(S_AxesManager)),
           AxesManager(SortedValues(HdfGroup2Dict(node)))>>
    ELSE IF StartsWith(key, S_list)
    THEN <<SliceFrom(key, 7 + PyFind(SliceFrom(key, 6), "_")),
           PyList(SortedValues(HdfGroup2Dict(node)))>>
    ELSE IF StartsWith(key, S_tuple)
    THEN <<SliceFrom(key, 8 + PyFind(SliceFrom(key, 7), "_")),
           PyTuple(SortedValues(HdfGroup2Dict(node)))>>
    ELSE <<key, PyDict(HdfGroup2Dict(node))>>

\* hdfgroup2dict(group): the dictionary it returns
HdfGroup2Dict(group) ==
    LET fromAttrs == {ImportAttr(k, group.attrs[k]) : k \in DOMAIN group.attrs}
                     \ {<<>>}
        fromItems == IF group.kind = "dataset" THEN {}
                     ELSE {ImportItem(k, group.items[k]) : k \in DOMAIN group.items}
    IN  DictOfFn(FnOfPairs(fromAttrs \cup fromItems))

\* dict(group[u'axis-%i' % i].attrs): the raw attributes of an axis group
AxisAttrs(node) == PyDict(DictOfFn(node.attrs))

\* hdfgroup2signaldict(group) for a file of the current format version
HdfGroup2SignalDict(group) ==
    LET md0 == HdfGroup2Dict(group.items[S_metadata])
        gen == IF S_General \in DictKeys(md0) THEN DictGet(md0, S_General).m
               ELSE <<>>
        \* a title of u'__unnamed__' is set back to the empty string
        retitled == [j \in DOMAIN gen |->
                        IF gen[j][1] = S_title /\ gen[j][2].t = "unicode"
                           /\ gen[j][2].s = S_unnamed
                        THEN <<S_title, PyUnicode(<<>>)>> ELSE gen[j]]
        md == [j \in DOMAIN md0 |->
                 IF md0[j][1] = S_General THEN <<S_General, PyDict(retitled)>>
                 ELSE md0[j]]
        data == group.items[S_data].data
        \* the model's arrays are one-dimensional: one axis group is read
        axes == IF (S_axis \o PyStr(0)) \in DOMAIN group.items
                THEN <<AxisAttrs(group.items[S_axis \o PyStr(0)])>>
                ELSE SortedValues(HdfGroup2Dict(
                        group.items[S_list \o PyStr(1) \o <<"_">> \o S_axes]))
    IN  <<<<S_data, data>>,
          <<S_axes, PyList(axes)>>,
          <<S_metadata, PyDict(md)>>,
          <<S_original_metadata,
            PyDict(HdfGroup2Dict(group.items[S_original_metadata]))>>,
          <<S_learning_results,
            PyDict(HdfGroup2Dict(group.items[S_learning_results]))>>>>

RECURSIVE SameValue(_, _)
\* a and b have the same Python type and the same contents
SameValue(a, b) ==
    /\ a.t = b.t /\ a.n = b.n /\ a.s = b.s
    /\ Len(a.e) = Len(b.e)
    /\ \A j \in DOMAIN a.e : SameValue(a.e[j], b.e[j])
    /\ DictKeys(a.m) = DictKeys(b.m)
    /\ \A k \in DictKeys(a.m) : SameValue(DictGet(a.m, k), DictGet(b.m, k))

(***************************************************************************)
(* The codec as a state machine: a metadata dictionary is exported to a    *)
(* group (dict2hdfgroup) and the group is imported again (hdfgroup2dict).  *)
(***************************************************************************)
MaxLen == 11          \* longest list or tuple of the inputs

K_k == <<"k">>
K_a == <<"a">>
K_size == <<"s", "i", "z", "e">>
K_name == <<"n", "a", "m", "e">>

\* elements of the short containers
HdfElems ==
    {PyNone, PyInt(1), PyInt(2), PyUnicode(K_a),
     PyList(<<PyInt(1)>>), PyList(<<>>), PyDict(<<<<K_a, PyInt(1)>>>>)}

\* the j-th element (from 0) of a long container of each kind
LongElem(kind, j) ==
    CASE kind = "int" -> PyInt(j)
      [] kind = "list" -> PyList(<<PyInt(j)>>)
      [] kind = "dict" -> PyDict(<<<<K_a, PyInt(j)>>>>)
      [] OTHER -> IF j = 0 THEN PyNone ELSE PyInt(j)
LongSeq(kind, n) == [j \in 1..n |-> LongElem(kind, j - 1)]

\* an embedded sub-signal
ASignal ==
    PySignal(<<
        <<S_data, NdArray("int", <<PyInt(1), PyInt(2)>>)>>,
        <<S_axes, PyList(<<PyDict(<<<<K_size, PyInt(2)>>,
                                    <<K_name, PyUnicode(K_a)>>>>)>>)>>,
        <<S_metadata, PyDict(<<<<S_General,
                                 PyDict(<<<<S_title, PyUnicode(K_a)>>>>)>>>>)>>,
        <<S_original_metadata, PyDict(<<<<K_a, PyList(<<>>)>>>>)>>,
        <<S_learning_results, PyDict(<<>>)>> >>)

HdfSeqs ==
    UNION {[1..n -> HdfElems] : n \in 0..2}
    \cup {LongSeq(kind, n) : kind \in {"int", "list", "dict", "mixed"},
                             n \in 3..MaxLen}
    \cup {<<ASignal>>, <<ASignal, PyInt(1)>>}

HdfValues ==
    {PyNone, PyInt(1), PyFloat(2), PyBool(1), PyUnicode(K_a),
     PyBytes(<<"a", NUL, "b">>), PyDate(735599),
     NdArray("int", <<PyInt(1), PyInt(2)>>), ASignal,
     PyDict(<<>>), PyDict(<<<<K_a, PyTuple(<<>>)>>>>)}
    \cup {PyList(e) : e \in HdfSeqs} \cup {PyTuple(e) : e \in HdfSeqs}

HdfInputs ==
    {<<<<K_k, v>>>> : v \in HdfValues}
    \cup {<<<<K_k, PyDict(<<<<K_a, v>>>>)>>, <<K_a, PyNone>>>> : v \in HdfValues}

HInit ==
    /\ h_pc = "start" /\ h_dict \in HdfInputs
    /\ h_group = <<>> /\ h_out = <<>>
    /\ RIdle /\ DIdle /\ TIdle /\ CIdle /\ OIdle /\ PIdle /\ WIdle

HOthers == <<rvars, dvars, tvars, cvars, ovars, pvars, wvars>>

\* dict2hdfgroup(dictionary, group)
HExport ==
    /\ h_pc = "start"
    /\ h_group' = Dict2HdfGroup(h_dict)
    /\ h_pc' = "exported"
    /\ UNCHANGED <<h_dict, h_out, HOthers>>

\* hdfgroup2dict(group)
HImport ==
    /\ h_pc = "exported"
    /\ h_out' = HdfGroup2Dict(h_group)
    /\ h_pc' = "imported"
    /\ UNCHANGED <<h_dict, h_group, HOthers>>

HNext == HExport \/ HImport
SpecHdf == HInit /\ [][HNext]_vars

\* C1: importing the group made by exporting a dictionary of supported
\* values gives back a dictionary of the same types and the same contents.
C1_RoundTrip ==
    h_pc = "imported" => SameValue(PyDict(h_out), PyDict(h_dict))

\* the (first-level) list or tuple values of a dictionary that
\* parse_structure exports as an indexed sub-mapping
SubMapped(dictionary) ==
    {j \in DOMAIN dictionary :
        /\ dictionary[j][2].t \in {"list", "tuple"}
        /\ Len(dictionary[j][2].e) > 0
        /\ IsSubMapping(dictionary[j][2])}

\* C2: a list or tuple exported as an indexed sub-mapping is imported with
\* its elements in their original order, whatever its length.
C2_SubMappingOrder ==
    h_pc = "imported" =>
        \A j \in SubMapped(h_dict) :
            LET key == h_dict[j][1]
                orig == h_dict[j][2]
            IN  /\ key \in DictKeys(h_out)
                /\ Len(DictGet(h_out, key).e) = Len(orig.e)
                /\ \A q \in DOMAIN orig.e :
                      SameValue(DictGet(h_out, key).e[q], orig.e[q])

(***************************************************************************)
(* One read call of a reader and the file handle it works on.              *)
(*   r_open    the handle is open                                          *)
(*   r_opened  the handle was opened by this call                          *)
(*   r_file    what the file holds and the options of the call             *)
(***************************************************************************)
MaxGroups == 3        \* most subgroups of Experiments in an HDF5 file

\* HDF5: the root has a file_format_version attribute, has an Experiments
\* group, the kind of each subgroup of it, and the load_to_memory option
HdfFiles ==
    [version : BOOLEAN, experiments : BOOLEAN,
     groups : UNION {[1..n -> {"signal", "nodata", "broken"}] : n \in 0..MaxGroups},
     load_to_memory : BOOLEAN]

\* MRC: the file holds a whole standard header, an extended FEI header,
\* the MODE field of the header, and enough data for NX*NY*NZ values
MrcFiles ==
    [header : BOOLEAN, fei : BOOLEAN, mode : 0..5, data : BOOLEAN]

\* a TIFF page and the options of TiffPage.asarray
TiffPageCalls ==
    [shape : BOOLEAN, dtype : BOOLEAN, decompressor : BOOLEAN,
     closed : BOOLEAN, reopen : BOOLEAN, offsets : BOOLEAN, strips : BOOLEAN]

RInit ==
    /\ \/ r_reader = "hdf5" /\ r_file \in HdfFiles /\ r_open = FALSE
       \/ r_reader = "mrc" /\ r_file \in MrcFiles /\ r_open = FALSE
       \/ r_reader = "tiffpage" /\ r_file \in TiffPageCalls
          /\ r_open = ~r_file.closed
    /\ r_pc = "start" /\ r_idx = 0 /\ r_opened = FALSE
    /\ HIdle /\ DIdle /\ TIdle /\ CIdle /\ OIdle /\ PIdle /\ WIdle

ROthers == <<hvars, dvars, tvars, cvars, ovars, pvars, wvars>>

\* hdf5.file_reader: f = h5py.File(filename, ...)
HdfOpen ==
    /\ r_reader = "hdf5" /\ r_pc = "start"
    /\ r_open' = TRUE /\ r_opened' = TRUE
    /\ r_pc' = "version"
    /\ UNCHANGED <<r_reader, r_file, r_idx, ROthers>>

\* get_hspy_format_version(f): raises IOError for a file that has neither
\* the version attribute nor an Experiments group
HdfVersion ==
    /\ r_reader = "hdf5" /\ r_pc = "version"
    /\ r_pc' = IF r_file.version \/ r_file.experiments THEN "scan" ELSE "raised"
    /\ UNCHANGED <<r_reader, r_file, r_idx, r_open, r_opened, ROthers>>

\* the experiments of the file: the subgroups that hold a dataset 'data'
HdfExperiments(file) ==
    SelectSeq(file.groups, LAMBDA g : g # "nodata")

\* the scan of f['Experiments']; IOError when there is no Experiments
\* group or no experiment in it
HdfScan ==
    /\ r_reader = "hdf5" /\ r_pc = "scan"
    /\ r_pc' = IF r_file.experiments /\ Len(HdfExperiments(r_file)) > 0
               THEN "parse" ELSE "raised"
    /\ UNCHANGED <<r_reader, r_file, r_idx, r_open, r_opened, ROthers>>

\* exp = hdfgroup2signaldict(exg, load_to_memory) for the next experiment;
\* a group without metadata or axes raises (KeyError, IOError)
HdfParse ==
    /\ r_reader = "hdf5" /\ r_pc = "parse"
    /\ r_idx < Len(HdfExperiments(r_file))
    /\ IF HdfExperiments(r_file)[r_idx + 1] = "broken"
       THEN r_pc' = "raised" /\ r_idx' = r_idx
       ELSE r_pc' = "parse" /\ r_idx' = r_idx + 1
    /\ UNCHANGED <<r_reader, r_file, r_open, r_opened, ROthers>>

\* if load_to_memory: f.close(); return exp_dict_list
HdfReturn ==
    /\ r_reader = "hdf5" /\ r_pc = "parse"
    /\ r_idx = Len(HdfExperiments(r_file))
    /\ r_open' = IF r_file.load_to_memory THEN FALSE ELSE r_open
    /\ r_pc' = "returned"
    /\ UNCHANGED <<r_reader, r_file, r_idx, r_opened, ROthers>>

\* mrc.file_reader: f = open(filename, 'rb')
MrcOpen ==
    /\ r_reader = "mrc" /\ r_pc = "start"
    /\ r_open' = TRUE /\ r_opened' = TRUE
    /\ r_pc' = "header"
    /\ UNCHANGED <<r_reader, r_file, r_idx, ROthers>>

\* the standard header (and the extended FEI header) are read; a file
\* shorter than the header gives an empty record and the read of NEXT fails
MrcHeader ==
    /\ r_reader = "mrc" /\ r_pc = "header"
    /\ r_pc' = IF r_file.header THEN "data" ELSE "raised"
    /\ UNCHANGED <<r_reader, r_file, r_idx, r_open, r_opened, ROthers>>

\* data = np.memmap(f, ..., dtype=get_data_type(MODE)).reshape(NX, NY, NZ):
\* get_data_type has five entries, reshape needs NX*NY*NZ values;
\* then the dictionary is built and returned.  f is not closed.
MrcData ==
    /\ r_reader = "mrc" /\ r_pc = "data"
    /\ r_pc' = IF r_file.mode \in 0..4 /\ r_file.data THEN "returned" ELSE "raised"
    /\ UNCHANGED <<r_reader, r_file, r_idx, r_open, r_opened, ROthers>>

\* TiffPage.asarray, up to the use of the handle: the early return, the
\* checks of dtype and compression, and the re-opening of a closed handle
PageOpen ==
    /\ r_reader = "tiffpage" /\ r_pc = "start"
    /\ IF ~r_file.shape THEN r_pc' = "returned" /\ UNCHANGED <<r_open, r_opened>>
       ELSE IF ~r_file.dtype \/ ~r_file.decompressor
       THEN r_pc' = "raised" /\ UNCHANGED <<r_open, r_opened>>
       ELSE IF ~r_open
       THEN IF r_file.reopen
            THEN r_open' = TRUE /\ r_opened' = TRUE /\ r_pc' = "read"
            ELSE r_pc' = "raised" /\ UNCHANGED <<r_open, r_opened>>
       ELSE r_pc' = "read" /\ UNCHANGED <<r_open, r_opened>>
    /\ UNCHANGED <<r_reader, r_file, r_idx, ROthers>>

\* TiffPage.asarray, the reading: 'corrupted page' for an offset below 2,
\* a strip that cannot be decompressed or unpacked raises; otherwise the
\* array is returned after 'if closed: fh.close()'
PageRead ==
    /\ r_reader = "tiffpage" /\ r_pc = "read"
    /\ IF ~r_file.offsets \/ ~r_file.strips
       THEN r_pc' = "raised" /\ UNCHANGED r_open
       ELSE r_pc' = "returned"
            /\ r_open' = IF r_file.closed THEN FALSE ELSE r_open
    /\ UNCHANGED <<r_reader, r_file, r_idx, r_opened, ROthers>>

RNext ==
    \/ HdfOpen \/ HdfVersion \/ HdfScan \/ HdfParse \/ HdfReturn
    \/ MrcOpen \/ MrcHeader \/ MrcData
    \/ PageOpen \/ PageRead
SpecReaders == RInit /\ [][RNext]_vars

\* C3: a handle opened by a read call is closed when the call has
\* returned or raised.
C3_HandleClosedOnExit ==
    r_pc \in {"returned", "raised"} => ~(r_opened /\ r_open)

(***************************************************************************)
(* Reading one TIFF directory: TiffPage._fromfile and, for each entry,     *)
(* TiffTag._fromfile.  The bytes of the file are whatever the file holds:  *)
(* every read draws its value from a small set.                            *)
(*   t_osize    offset size of the file: 4 (TIFF) or 8 (BigTIFF)           *)
(*   t_cursor   position of the file cursor                                *)
(*   t_tags     the page's tags, name -> tag                               *)
(*   t_tag      the tag being stored under a duplicate name, t_i the index *)
(*              of the loop that looks for a free name, t_iter the number  *)
(*              of names the loop has tried                                *)
(***************************************************************************)
MaxTags == 3          \* most entries of a directory
MaxSpin == 3          \* most iterations of the duplicate-name loop followed
FileSize == 1000      \* size of the file in bytes

TagCodes == {270, 700, 65000}    \* a TIFF_TAGS code, a CUSTOM_TAGS code, neither
TagTypes == {2, 3, 99}           \* ASCII '1s', SHORT '1H', a type not in TIFF_DATA_TYPES
TagCounts == {4, 9}
TagValues == {100, 996, 2000}    \* the value field of an entry, read as an offset

InTiffTags(code) == code = 270
InCustomTags(code) == code = 700

\* the name of a tag: TIFF_TAGS[code][0], CUSTOM_TAGS[code][0] or unicode(code)
TagName(code) ==
    IF InTiffTags(code) THEN <<"image_description">>
    ELSE IF InCustomTags(code) THEN <<"xmp">>
    ELSE PyStr(code)

\* size of one directory entry, of the entry count, of the inline value slot
EntrySize(osize) == IF osize = 4 THEN 12 ELSE 20
CountFieldSize(osize) == IF osize = 4 THEN 2 ELSE 8
\* the offset of the first directory, as the header of the file gives it
FirstIfdOffset(osize) == IF osize = 4 THEN 8 ELSE 16

\* TIFF_DATA_TYPES: is the type known, and the bytes of one value of it
InTiffDataTypes(type) == type \in {2, 3}
TypeSize(type) == IF type = 3 THEN 2 ELSE 1

\* struct.calcsize of count values of the tag's data type
ValueSize(type, count) == count * TypeSize(type)

\* is the value read from the offset in the entry, not from the entry
IsOutOfLine(osize, code, type, count) ==
    ValueSize(type, count) > osize \/ InCustomTags(code)

\* value_offset without the offset size in the position of the inline value
ValueOffsetNoSize(osize, entryOffset, code, type, count, value) ==
    IF IsOutOfLine(osize, code, type, count) THEN value
    ELSE entryOffset + 4

\* TiffTag.value_offset as _fromfile leaves it
ValueOffset(osize, entryOffset, code, type, count, value) ==
    IF IsOutOfLine(osize, code, type, count) THEN value
    ELSE entryOffset + osize + 4

\* does TiffTag._fromfile raise TiffTag.Error
TagError(osize, code, type, count, value) ==
    \/ ~InTiffDataTypes(type)
    \/ /\ IsOutOfLine(osize, code, type, count)
       /\ (value < 0 \/ value > FileSize \/ value < 4)

\* does the read of an out-of-line value end before all its bytes: the
\* struct.unpack of a short string raises struct.error, which is no
\* TiffTag.Error
ShortRead(osize, code, type, count, value) ==
    /\ ~TagError(osize, code, type, count, value)
    /\ IsOutOfLine(osize, code, type, count)
    /\ ~InCustomTags(code) /\ (InTiffTags(code) \/ type = 2)
    /\ value + ValueSize(type, count) > FileSize

\* the cursor left behind the value that was read
StayAtValue(pos, behind) == behind

\* pos = fh.tell(); fh.seek(...); ...; fh.seek(pos)
SeekBack(pos, behind) == pos

\* the cursor when TiffTag._fromfile is left: the entry has been read; an
\* out-of-line value is read at its offset and the cursor is put back
CursorAfterTag(osize, entryOffset, code, type, count, value) ==
    LET pos == entryOffset + EntrySize(osize)
    IN  IF TagError(osize, code, type, count, value) THEN pos
        ELSE IF ShortRead(osize, code, type, count, value) THEN FileSize
        ELSE IF IsOutOfLine(osize, code, type, count)
        THEN SeekBack(pos, value + ValueSize(type, count))
        ELSE pos

\* the tag TiffTag._fromfile builds from the entry at entryOffset
TiffTag(osize, entryOffset, code, type, count, value) ==
    [code |-> code, name |-> TagName(code), type |-> type, count |-> count,
     value_offset |-> ValueOffset(osize, entryOffset, code, type, count, value),
     offset |-> entryOffset, raw |-> value]

\* u"%s_%i" % (tag.name, i)
IndexedName(name, i) == name \o <<"_">> \o PyStr(i)

\* the index the duplicate-name loop tries after index i was taken
NextIndex(i) == i

TInit ==
    /\ t_pc = "ifd" /\ t_osize \in {4, 8}
    /\ t_cursor = t_osize        \* behind byte order, version (and offset size)
    /\ t_numtags = 0 /\ t_tags = <<>> /\ t_tag = <<>> /\ t_i = 0 /\ t_iter = 0
    /\ t_read = 0 /\ t_tagcode = 0 /\ t_warned = FALSE
    /\ HIdle /\ RIdle /\ DIdle /\ CIdle /\ OIdle /\ PIdle /\ WIdle

TOthers == <<hvars, rvars, dvars, cvars, ovars, pvars, wvars>>

\* TiffPage._fromfile: the offset of the directory is read, the cursor is
\* moved to it and the number of entries is read
TReadCount ==
    /\ t_pc = "ifd"
    /\ \E numtags \in 0..MaxTags :
          /\ t_numtags' = numtags
          /\ t_cursor' = FirstIfdOffset(t_osize) + CountFieldSize(t_osize)
          /\ t_pc' = "tags"
    /\ UNCHANGED <<t_osize, t_tags, t_tag, t_i, t_iter, t_read, t_tagcode,
                   t_warned, TOthers>>

\* one turn of 'for _ in xrange(numtags)': TiffTag(self.parent) reads the
\* entry (and its value, restoring the cursor); a TiffTag.Error skips the
\* entry; the tag is stored under its name, or the duplicate-name loop starts
TReadTag ==
    /\ t_pc = "tags" /\ t_read < t_numtags
    /\ \E code \in TagCodes, type \in TagTypes, count \in TagCounts,
          value \in TagValues :
          LET tag == TiffTag(t_osize, t_cursor, code, type, count, value)
          IN  /\ t_cursor' = CursorAfterTag(t_osize, t_cursor, code, type, count, value)
              /\ t_read' = t_read + 1
              /\ IF TagError(t_osize, code, type, count, value)
                 THEN UNCHANGED <<t_tags, t_tag, t_i, t_pc, t_tagcode, t_warned>>
                 ELSE IF ShortRead(t_osize, code, type, count, value)
                 THEN /\ t_pc' = "error"
                      /\ UNCHANGED <<t_tags, t_tag, t_i, t_tagcode, t_warned>>
                 ELSE /\ t_warned' = (t_warned \/ t_tagcode > code)
                      /\ t_tagcode' = code
                      /\ IF tag.name \notin DOMAIN t_tags
                         THEN /\ t_tags' = [n \in DOMAIN t_tags \cup {tag.name} |->
                                              IF n = tag.name THEN tag ELSE t_tags[n]]
                              /\ UNCHANGED <<t_tag, t_i, t_pc>>
                         ELSE /\ t_tag' = tag /\ t_i' = 1 /\ t_pc' = "dedup"
                              /\ UNCHANGED t_tags
    /\ t_iter' = 0
    /\ UNCHANGED <<t_osize, t_numtags, TOthers>>

\* one turn of the 'while True' loop that looks for a free name
TDedup ==
    /\ t_pc = "dedup" /\ t_iter < MaxSpin
    /\ LET name == IndexedName(t_tag.name, t_i)
       IN  IF name \notin DOMAIN t_tags
           THEN /\ t_tags' = [n \in DOMAIN t_tags \cup {name} |->
                                IF n = name THEN t_tag ELSE t_tags[n]]
                /\ t_pc' = "tags" /\ t_tag' = <<>> /\ t_i' = 0
           ELSE /\ t_i' = NextIndex(t_i)
                /\ UNCHANGED <<t_tags, t_pc, t_tag>>
    /\ t_iter' = t_iter + 1
    /\ UNCHANGED <<t_osize, t_numtags, t_cursor, t_read, t_tagcode, t_warned,
                   TOthers>>

\* the end of TiffPage._fromfile: pos = fh.tell(); the LSM or STK records
\* are read where their offsets point; fh.seek(pos)
TEndOfDirectory ==
    /\ t_pc = "tags" /\ t_read = t_numtags
    /\ t_pc' = "done"
    /\ \E record \in {0} \cup TagValues :
          t_cursor' = IF record < 8 THEN t_cursor ELSE SeekBack(t_cursor, record)
    /\ UNCHANGED <<t_osize, t_numtags, t_tags, t_tag, t_i, t_iter,
                   t_read, t_tagcode, t_warned, TOthers>>

TNext == TReadCount \/ TReadTag \/ TDedup \/ TEndOfDirectory
SpecTiffDir == TInit /\ [][TNext]_vars

\* C4: tags of the same name are stored under name, name_1, name_2, ...:
\* the loop that looks for a free name moves to the next index after every
\* name it finds taken, so that no tag is dropped.
C4_IncrementingIndex ==
    t_pc = "dedup" => t_i = t_iter + 1

\* the position of the next-IFD offset field of the directory
NextIfdField(osize, numtags) ==
    FirstIfdOffset(osize) + CountFieldSize(osize) + numtags * EntrySize(osize)

\* C11: whenever a tag has been read, its value out-of-line or not, the
\* cursor is directly behind the tag's directory entry, and when the whole
\* directory has been read it is at the next-IFD offset field.
C11_CursorRestored ==
    /\ t_pc \in {"tags", "dedup"} => t_cursor = NextIfdField(t_osize, t_read)
    /\ t_pc = "done" => t_cursor = NextIfdField(t_osize, t_numtags)

\* a directory whose second entry was stored out-of-line has been read
C11_Witness ==
    /\ t_pc = "done" /\ t_numtags >= 2
    /\ \E n \in DOMAIN t_tags :
          /\ IsOutOfLine(t_osize, t_tags[n].code, t_tags[n].type, t_tags[n].count)
          /\ t_tags[n].offset = NextIfdField(t_osize, 1)
          /\ t_tags[n].value_offset > t_cursor

Unset == 0 - 1        \* stands for a value_offset that was never set

\* C10 as stated: a tag whose value fits the inline slot has no value_offset,
\* and value_offset is set only for a value larger than the slot.
C10_OffsetOnlyOutOfLine ==
    \A n \in DOMAIN t_tags :
        (t_tags[n].value_offset # Unset)
            <=> (ValueSize(t_tags[n].type, t_tags[n].count) > t_osize)

\* C10 as amended: value_offset is always set.  For a value larger than the
\* inline slot, and for every custom tag, it is the offset held in the
\* entry, a position inside the file; otherwise it is the position of the
\* inline slot, the last offset_size bytes of the tag's directory entry.
C10_ValueOffsetSet ==
    \A n \in DOMAIN t_tags :
        LET tag == t_tags[n]
        IN  /\ tag.value_offset # Unset
            /\ IF ValueSize(tag.type, tag.count) > t_osize \/ InCustomTags(tag.code)
               THEN tag.value_offset = tag.raw
                    /\ tag.value_offset >= 4 /\ tag.value_offset <= FileSize
               ELSE /\ tag.value_offset + t_osize = tag.offset + EntrySize(t_osize)
                    /\ tag.offset < tag.value_offset

\* a directory was read that holds an inline tag, an out-of-line tag and a
\* custom tag whose value would fit the slot
C10_Witness ==
    /\ t_pc = "done"
    /\ \E n \in DOMAIN t_tags :
          /\ ValueSize(t_tags[n].type, t_tags[n].count) <= t_osize
          /\ ~InCustomTags(t_tags[n].code)
    /\ \E n \in DOMAIN t_tags :
          /\ ValueSize(t_tags[n].type, t_tags[n].count) > t_osize
          /\ ~InCustomTags(t_tags[n].code)
    /\ \E n \in DOMAIN t_tags :
          /\ ValueSize(t_tags[n].type, t_tags[n].count) <= t_osize
          /\ InCustomTags(t_tags[n].code)

(***************************************************************************)
(* Reading the chain of directories: TiffFile._fromfile.                   *)
(*   c_file    the file: its header, the offset of the first directory,    *)
(*             the next-IFD offset of every directory, and the directories *)
(*             whose tags TiffPage._process_tags rejects                   *)
(*   c_cursor  where the cursor is: 0 at the first-IFD offset of the       *)
(*             header, o at the next-IFD offset of the directory at o      *)
(*   c_pages   the pages, each named by the offset of its directory        *)
(***************************************************************************)
MaxIfds == 3          \* number of directories in a file
MaxPages == 5         \* most pages read (a chain may be cyclic)

IfdSpacing == 32
IfdOffsets == {8 + IfdSpacing * (j - 1) : j \in 1..MaxIfds}
BeyondEof == 8 + IfdSpacing * MaxIfds + 1000    \* an offset behind the end
Pointers == IfdOffsets \cup {0, BeyondEof}

TiffFiles ==
    [magic : {"II", "??"}, version : {42, 43, 44},
     first : Pointers, next : [IfdOffsets -> Pointers],
     rejected : {{}} \cup {{o} : o \in IfdOffsets}]

\* the offset the cursor is at
PointerAt(file, cursor) == IF cursor = 0 THEN file.first ELSE file.next[cursor]

\* the cursor left where it was before the directory was read
CursorStays(cursor, offset) == cursor

\* the cursor after TiffPage(self) has read the directory at offset:
\* _fromfile leaves it at the next-IFD offset of that directory
CursorAfterPage(cursor, offset) == offset

CInit ==
    /\ c_pc = "header" /\ c_file \in TiffFiles
    /\ c_cursor = 0 /\ c_pages = <<>> /\ c_err = "none"
    /\ HIdle /\ RIdle /\ DIdle /\ TIdle /\ OIdle /\ PIdle /\ WIdle

COthers == <<hvars, rvars, dvars, tvars, ovars, pvars, wvars>>

\* byte order, version (and BigTIFF offset size) of the header
CHeader ==
    /\ c_pc = "header"
    /\ IF c_file.magic \notin {"II", "MM"}
       THEN c_pc' = "error" /\ c_err' = "not a valid TIFF file"
       ELSE IF c_file.version \notin {42, 43}
       THEN c_pc' = "error" /\ c_err' = "not a TIFF file"
       ELSE c_pc' = "pages" /\ c_err' = c_err
    /\ UNCHANGED <<c_file, c_cursor, c_pages, COthers>>

\* one turn of 'while True': page = TiffPage(self); self.pages.append(page)
\* for a directory that is read and accepted
CReadPage ==
    /\ c_pc = "pages" /\ Len(c_pages) < MaxPages
    /\ LET offset == PointerAt(c_file, c_cursor)
       IN  /\ offset \in IfdOffsets
           /\ IF offset \in c_file.rejected
              THEN \* _process_tags raises ValueError: it is not caught
                   /\ c_pc' = "error" /\ c_err' = "unsupported tag value"
                   /\ c_cursor' = CursorAfterPage(c_cursor, offset)
                   /\ UNCHANGED c_pages
              ELSE /\ c_pages' = Append(c_pages, offset)
                   /\ c_cursor' = CursorAfterPage(c_cursor, offset)
                   /\ UNCHANGED <<c_pc, c_err>>
    /\ UNCHANGED <<c_file, COthers>>

\* the turn in which TiffPage raises StopIteration (offset 0, or a
\* directory that cannot be read: 'corrupted page list'): the loop is left,
\* and a file without pages is refused
CStop ==
    /\ c_pc = "pages"
    /\ PointerAt(c_file, c_cursor) \notin IfdOffsets
    /\ IF c_pages = <<>>
       THEN c_pc' = "error" /\ c_err' = "empty TIFF file"
       ELSE c_pc' = "done" /\ c_err' = c_err
    /\ UNCHANGED <<c_file, c_cursor, c_pages, COthers>>

CNext == CHeader \/ CReadPage \/ CStop
SpecTiffChain == CInit /\ [][CNext]_vars

RECURSIVE Walk(_, _)
\* the offset of the k-th directory of the chain of a file
Walk(file, k) ==
    IF k = 1 THEN file.first ELSE file.next[Walk(file, k - 1)]

\* C5: the pages are the directories of the chain in chain order, one page
\* per directory, from the first-IFD offset of the header; reading stops
\* where a next-IFD offset of 0 is read, and that stop is the end of the
\* pages, not an error.
C5_ChainOrder ==
    /\ \A k \in 1..Len(c_pages) : c_pages[k] = Walk(c_file, k)
    /\ (c_pc = "pages" /\ c_pages # <<>>) => c_cursor = c_pages[Len(c_pages)]
    /\ (c_pc = "pages" /\ Len(c_pages) < MaxPages /\ c_pages # <<>>
          /\ c_file.next[c_cursor] = 0) => ENABLED CStop /\ ~ENABLED CReadPage
    /\ c_pc = "done" =>
          /\ c_err = "none" /\ c_pages # <<>>
          /\ c_file.next[c_pages[Len(c_pages)]] \notin IfdOffsets
    /\ c_err = "empty TIFF file" => c_pages = <<>>

\* a chain of three directories was read to its end, offset 0
C5_Witness ==
    /\ c_pc = "done" /\ Len(c_pages) = 3
    /\ c_file.next[c_pages[3]] = 0
    /\ c_pages[1] # c_pages[2] /\ c_pages[2] # c_pages[3] /\ c_pages[1] # c_pages[3]

(***************************************************************************)
(* The DM3/DM4 tag-tree decoder: DigitalMicrographReader.parse_file.       *)
(*   d_version  the version read from the header                           *)
(*   d_ops      the operations on the file of the last step, in order      *)
(*   d_stack    the tag groups being parsed, innermost last: the name of   *)
(*              the group, the tags still to read, the counters of the     *)
(*              unnamed tags and the names given so far                    *)
(* The values read are whatever the file holds: each is drawn from a set.  *)
(***************************************************************************)
MaxRootTags == 2      \* most tags of the root group
MaxGroupTags == 1     \* most tags of a nested group
MaxDepth == 2         \* deepest nesting of groups followed
MaxFields == 1        \* most fields of a struct

FileOp(op, n, what) == [op |-> op, n |-> n, what |-> what]
ReadLong(what) == <<FileOp("read_long", 4, what)>>
ReadShort(what) == <<FileOp("read_short", 2, what)>>
ReadByte(what) == <<FileOp("read_byte", 1, what)>>
ReadData(n) == <<FileOp("read", n, "data")>>
Seek(n, what) == <<FileOp("seek", n, what)>>

\* skipif4(n): in a version 4 file the cursor moves 4*n bytes forward
SkipIf4(version, n) == IF version = 4 THEN Seek(4 * n, "skipif4") ELSE <<>>

RECURSIVE Repeat(_, _)
Repeat(ops, n) == IF n = 0 THEN <<>> ELSE ops \o Repeat(ops, n - 1)

\* parse_string_definition
ParseStringDefinition(version) ==
    SkipIf4(version, 1) \o ReadLong("string_length")

\* parse_array_definition
ParseArrayDefinition(version) ==
    SkipIf4(version, 1) \o ReadLong("enc_eltype")
    \o SkipIf4(version, 1) \o ReadLong("array_length")

\* parse_struct_definition of a struct of nfields fields
ParseStructDefinition(version, nfields) ==
    Seek(4, "name_length") \o SkipIf4(version, 2) \o ReadLong("nfields")
    \o Repeat(Seek(4, "name_length") \o SkipIf4(version, 2)
              \o ReadLong("field_type"), nfields)

\* parse_tag_group(skip4)
ParseTagGroup(version, skip4) ==
    ReadByte("is_sorted") \o ReadByte("is_open")
    \o SkipIf4(version, skip4) \o ReadLong("n_tags")

\* parse_tag_header of a tag whose name has namelen characters
ParseTagHeader(namelen) ==
    ReadByte("tag_id") \o ReadShort("tag_name_length") \o ReadData(namelen)

\* check_data_tag_delimiter
CheckDataTagDelimiter(version) == SkipIf4(version, 2) \o ReadData(4)

\* what a data tag holds: the size of its info array, the encoded types,
\* the number and the type of the fields of a struct, the length of a
\* string or inner array, the number of elements of an array
DataForm(ias, enctype, eltype, nfields, ftype, len, size) ==
    [ias |-> ias, enctype |-> enctype, eltype |-> eltype, nfields |-> nfields,
     ftype |-> ftype, len |-> len, size |-> size]
DataForms ==
    {DataForm(0, 0, 0, 0, 0, 0, 0)}
    \cup {DataForm(1, etype, 0, 0, 0, 0, 0) : etype \in {3, 8}}
    \cup {DataForm(2, enctype, 0, 0, 0, 2, 0) : enctype \in {18, 3}}
    \cup {DataForm(3, enctype, 3, 0, 0, 0, 2) : enctype \in {20, 3}}
    \cup {DataForm(4, 15, 0, nfields, ftype, 0, 0) :
            nfields \in 0..MaxFields, ftype \in {3, 15}}
    \cup {DataForm(4, 20, 15, nfields, 3, 0, 2) : nfields \in 0..MaxFields}
    \cup {DataForm(4, 20, 18, 0, 0, 2, size) : size \in {0, 2}}
    \cup {DataForm(4, 20, 20, 0, 3, 2, 2)}
    \cup {DataForm(4, 20, 3, 0, 0, 0, 0), DataForm(4, 3, 0, 0, 0, 0, 0)}

\* get_data_reader(etype)[1]: bytes of a simple type
SimpleSize(etype) == IF etype = 8 THEN 1 ELSE 4

\* the operations by which parse_tags reads the definition of a data tag,
\* from the delimiter to the last field before the data
DefinitionOps(version, f) ==
    CheckDataTagDelimiter(version)
    \o SkipIf4(version, 1) \o ReadLong("infoarray_size")
    \o SkipIf4(version, 1)
    \o (IF f.ias < 1 THEN <<>>
        ELSE IF f.ias = 1 THEN ReadLong("etype")
        ELSE IF f.ias = 2
        THEN ReadLong("enctype")
             \o (IF f.enctype # 18 THEN <<>> ELSE ParseStringDefinition(version))
        ELSE IF f.ias = 3
        THEN ReadLong("enctype")
             \o (IF f.enctype # 20 THEN <<>> ELSE ParseArrayDefinition(version))
        ELSE ReadLong("enctype")
             \o (IF f.enctype = 15 THEN ParseStructDefinition(version, f.nfields)
                 ELSE IF f.enctype = 20
                 THEN SkipIf4(version, 1) \o ReadLong("enc_eltype")
                      \o (IF f.eltype = 15
                          THEN ParseStructDefinition(version, f.nfields)
                               \o SkipIf4(version, 1) \o ReadLong("array_size")
                          ELSE IF f.eltype = 18
                          THEN ParseStringDefinition(version)
                               \o ReadLong("array_size")
                          ELSE IF f.eltype = 20
                          THEN ParseArrayDefinition(version)
                               \o ReadLong("array_size")
                          ELSE <<>>)
                 ELSE <<>>))

\* the exception parse_tags raises for a data tag, "none" when it is stored
DataError(f, skip) ==
    IF f.ias < 1 THEN "IOError"
    ELSE IF f.ias = 1 THEN "none"
    ELSE IF f.ias = 2
    THEN IF f.enctype # 18 THEN "IOError"
         ELSE IF skip THEN "NameError"      \* read_string: size_bytes is not defined
         ELSE "none"
    ELSE IF f.ias = 3 THEN (IF f.enctype # 20 THEN "IOError" ELSE "none")
    ELSE IF f.enctype = 15
    THEN IF f.nfields > 0 /\ f.ftype \notin {3, 8} THEN "DM3DataTypeError" ELSE "none"
    ELSE IF f.enctype = 20
    THEN IF f.eltype = 15 THEN "none"
         ELSE IF f.eltype = 18
         THEN IF skip THEN "NameError"      \* read_string: size_bytes is not defined
              ELSE "none"
         ELSE IF f.eltype = 20 THEN "none"
         ELSE "NameError"                   \* data is not assigned
    ELSE "NameError"                        \* data is not assigned

\* the bytes of the data of a tag that is read without error
DataSize(f) ==
    IF f.ias = 1 THEN SimpleSize(f.enctype)
    ELSE IF f.ias = 2 THEN f.len
    ELSE IF f.ias = 3 THEN f.size * SimpleSize(f.eltype)
    ELSE IF f.enctype = 15 THEN f.nfields * SimpleSize(f.ftype)
    ELSE IF f.eltype = 15 THEN f.size * f.nfields * SimpleSize(f.ftype)
    ELSE IF f.eltype = 18 THEN f.size * f.len
    ELSE f.size * SimpleSize(f.ftype)       \* the inner element type replaces enc_eltype

\* the operations that read (or, for the data of an image, skip) the data
DataOps(f, skip) ==
    IF DataError(f, skip) # "none" THEN <<>>
    ELSE IF skip /\ f.ias > 1 THEN Seek(DataSize(f), "data")
    ELSE ReadData(DataSize(f))

N_Data == <<"D", "a", "t", "a">>
N_ImageData == <<"I", "m", "a", "g", "e">> \o N_Data
N_TagGroup == <<"T", "a", "g", "G", "r", "o", "u", "p">>
N_root == <<"r", "o", "o", "t">>
TagNames == {<<>>, <<"x">>, N_Data, N_ImageData}

\* the counters of the unnamed tags carried on from the parent group
FrameCountingOn(name, ntags) ==
    [name |-> name, ntags |-> ntags,
     unnamed_data |-> IF d_stack = <<>> THEN 0
                      ELSE d_stack[Len(d_stack)].unnamed_data,
     unnamed_group |-> IF d_stack = <<>> THEN 0
                       ELSE d_stack[Len(d_stack)].unnamed_group,
     names |-> <<>>]
\* a call of parse_tags: unnammed_data_tags = 0; unnammed_group_tags = 0
Frame(name, ntags) ==
    [name |-> name, ntags |-> ntags, unnamed_data |-> 0, unnamed_group |-> 0,
     names |-> <<>>]

DInit ==
    /\ d_pc = "header" /\ d_version = 0 /\ d_endian = "none"
    /\ d_ops = <<>> /\ d_stack = <<>> /\ d_err = "none"
    /\ HIdle /\ RIdle /\ TIdle /\ CIdle /\ OIdle /\ PIdle /\ WIdle

DOthers == <<hvars, rvars, tvars, cvars, ovars, pvars, wvars>>

\* the exception parse_header raises for a version that is neither 3 nor
\* 4: the print ahead of the raise reads dm_version, a name that is not
\* defined (the attribute is self.dm_version)
UnsupportedVersionError == "NameError"

\* parse_header
DParseHeader ==
    /\ d_pc = "header"
    /\ \E version \in {2, 3, 4, 5}, is_little_endian \in {0, 1} :
          /\ d_version' = version
          /\ IF version \notin {3, 4}
             THEN /\ d_ops' = ReadLong("dm_version")
                  /\ d_err' = UnsupportedVersionError /\ d_pc' = "error"
                  /\ UNCHANGED d_endian
             ELSE /\ d_ops' = ReadLong("dm_version") \o SkipIf4(version, 1)
                              \o ReadLong("filesizeB") \o ReadLong("is_little_endian")
                  /\ d_endian' = IF is_little_endian # 0 THEN "little" ELSE "big"
                  /\ d_pc' = "root" /\ UNCHANGED d_err
    /\ UNCHANGED <<d_stack, DOthers>>

\* parse_file: number_of_root_tags = self.parse_tag_group()[2]
DParseRoot ==
    /\ d_pc = "root"
    /\ \E ntags \in 0..MaxRootTags :
          d_stack' = <<Frame(N_root, ntags)>>
    /\ d_ops' = ParseTagGroup(d_version, 1)
    /\ d_pc' = "tags"
    /\ UNCHANGED <<d_version, d_endian, d_err, DOthers>>

Top == d_stack[Len(d_stack)]
SetTop(frame) == [d_stack EXCEPT ![Len(d_stack)] = frame]

\* one turn of 'for tag in xrange(ntags)' of parse_tags for a data tag
DParseDataTag ==
    /\ d_pc = "tags" /\ d_stack # <<>> /\ Top.ntags > 0
    /\ \E name \in TagNames, f \in DataForms :
          LET skip == Top.name = N_ImageData /\ name = N_Data
              tag_name == IF name = <<>> THEN N_Data \o PyStr(Top.unnamed_data)
                          ELSE name
              counted == IF name = <<>> THEN Top.unnamed_data + 1
                         ELSE Top.unnamed_data
              err == DataError(f, skip)
          IN  /\ d_ops' = ParseTagHeader(Len(name)) \o DefinitionOps(d_version, f)
                          \o DataOps(f, skip)
              /\ IF err # "none"
                 THEN /\ d_err' = err /\ d_pc' = "error"
                      /\ d_stack' = SetTop([Top EXCEPT !.unnamed_data = counted])
                 ELSE /\ d_stack' = SetTop([Top EXCEPT
                                              !.unnamed_data = counted,
                                              !.ntags = @ - 1,
                                              !.names = Append(@, tag_name)])
                      /\ UNCHANGED <<d_err, d_pc>>
    /\ UNCHANGED <<d_version, d_endian, DOthers>>

\* one turn of the loop for a tag group: its header is read and parse_tags
\* is called for its tags
DParseGroupTag ==
    /\ d_pc = "tags" /\ d_stack # <<>> /\ Top.ntags > 0
    /\ Len(d_stack) < MaxDepth
    /\ \E name \in TagNames, ntags \in 0..MaxGroupTags :
          LET tag_name == IF name = <<>> THEN N_TagGroup \o PyStr(Top.unnamed_group)
                          ELSE name
              counted == IF name = <<>> THEN Top.unnamed_group + 1
                         ELSE Top.unnamed_group
          IN  /\ d_ops' = ParseTagHeader(Len(name)) \o ParseTagGroup(d_version, 3)
              /\ d_stack' = Append(SetTop([Top EXCEPT
                                             !.unnamed_group = counted,
                                             !.ntags = @ - 1,
                                             !.names = Append(@, tag_name)]),
                                   Frame(tag_name, ntags))
    /\ UNCHANGED <<d_pc, d_version, d_endian, d_err, DOthers>>

\* a data tag whose delimiter is not '%%%%': check_data_tag_delimiter raises
DParseBadDelimiter ==
    /\ d_pc = "tags" /\ d_stack # <<>> /\ Top.ntags > 0
    /\ \E name \in TagNames :
          /\ d_ops' = ParseTagHeader(Len(name)) \o CheckDataTagDelimiter(d_version)
          /\ d_stack' = SetTop([Top EXCEPT !.unnamed_data =
                                   IF name = <<>> THEN @ + 1 ELSE @])
    /\ d_err' = "DM3TagTypeError" /\ d_pc' = "error"
    /\ UNCHANGED <<d_version, d_endian, DOthers>>

\* a tag whose kind is neither 20 nor 21
DParseUnknownTag ==
    /\ d_pc = "tags" /\ d_stack # <<>> /\ Top.ntags > 0
    /\ \E name \in TagNames : d_ops' = ParseTagHeader(Len(name))
    /\ d_err' = "DM3TagIDError" /\ d_pc' = "error"
    /\ UNCHANGED <<d_version, d_endian, d_stack, DOthers>>

\* the loop of parse_tags is over: the call returns to the parent group
DEndGroup ==
    /\ d_pc = "tags" /\ d_stack # <<>> /\ Top.ntags = 0
    /\ d_stack' = SubSeq(d_stack, 1, Len(d_stack) - 1)
    /\ d_pc' = IF Len(d_stack) = 1 THEN "done" ELSE "tags"
    /\ d_ops' = <<>>
    /\ UNCHANGED <<d_version, d_endian, d_err, DOthers>>

DNext ==
    \/ DParseHeader \/ DParseRoot \/ DParseDataTag \/ DParseGroupTag
    \/ DParseBadDelimiter \/ DParseUnknownTag \/ DEndGroup
SpecDM == DInit /\ [][DNext]_vars

\* the integers that give the structure of the tag tree
Structural ==
    {"n_tags", "infoarray_size", "etype", "enctype", "enc_eltype",
     "string_length", "array_length", "nfields", "field_type", "array_size"}

\* C6: in a version 4 file every read of a structural integer comes right
\* after a skipif4 skip, and in a version 3 file no such skip is made.
C6_SkipBeforeStructuralRead ==
    /\ d_version = 4 =>
          \A j \in DOMAIN d_ops :
              d_ops[j].what \in Structural =>
                  j > 1 /\ d_ops[j - 1].what = "skipif4"
    /\ d_version = 3 => \A j \in DOMAIN d_ops : d_ops[j].what # "skipif4"

\* C7: a version that is neither 3 nor 4 makes parse_header raise the
\* NotImplementedError at once, no further field of the header being read.
C7_UnsupportedVersion ==
    (d_pc # "header" /\ d_version \notin {3, 4}) =>
        /\ d_pc = "error" /\ d_err = "NotImplementedError"
        /\ d_ops = ReadLong("dm_version")

(***************************************************************************)
(* OME multi-file series: TiffFile.series / _omeseries assemble the series *)
(* of a master file whose OME-XML refers to planes in other files, and     *)
(* TiffFile.asarray reads the pages of the first series.                   *)
(*   o_cfg     the arguments multifile and multifile_close, the TiffData   *)
(*             elements of the description (one plane each, the file that  *)
(*             holds it) and the files that cannot be read                 *)
(*   o_files   the keys of self._files                                     *)
(*   o_open    the secondary files whose handle is open                    *)
(*   o_tif     the local variable tif of _omeseries                        *)
(*   o_ifds    the pages of the series: the file of each, or None          *)
(*   o_failed  the last file whose TiffFile() failed                       *)
(*   o_parent  KeepOpen.parent                                             *)
(***************************************************************************)
MaxData == 3          \* most TiffData elements of the description

Master == "master"
Secondary == {"a", "b"}
Unbound == "unbound"
None == "None"

RECURSIVE SeqsUpTo(_, _)
SeqsUpTo(S, n) ==
    IF n = 0 THEN {<<>>}
    ELSE LET shorter == SeqsUpTo(S, n - 1)
         IN  shorter \cup {Append(q, x) : q \in shorter, x \in S}

OmeConfigs ==
    [multifile : BOOLEAN, multifile_close : BOOLEAN,
     data : SeqsUpTo({Master} \cup Secondary, MaxData) \ {<<>>},
     missing : SUBSET Secondary]

OInit ==
    /\ o_pc = "series" /\ o_cfg \in OmeConfigs
    /\ o_files = {Master} /\ o_open = {} /\ o_tif = Unbound
    /\ o_ifds = <<>> /\ o_series = "none" /\ o_failed = "none"
    /\ o_err = "none" /\ o_idx = 1 /\ o_parent = "none"
    /\ HIdle /\ RIdle /\ DIdle /\ TIdle /\ CIdle /\ PIdle /\ WIdle

OOthers == <<hvars, rvars, dvars, tvars, cvars, pvars, wvars>>

\* 'if self._multifile_close: tif.close()' leaving the handle open
KeepAfterIndex(close, open, file) == open

\* 'if self._multifile_close: tif.close()' after a file has been indexed
CloseAfterIndex(close, open, file) == IF close THEN open \ {file} ELSE open

\* one turn of 'for data in pixels' of _omeseries
OIndexData ==
    /\ o_pc = "series" /\ o_idx <= Len(o_cfg.data)
    /\ LET file == o_cfg.data[o_idx] IN
       IF file \in o_files
       THEN \* the pages of a file of the cache
            /\ o_ifds' = Append(o_ifds, file)
            /\ o_idx' = o_idx + 1
            /\ UNCHANGED <<o_pc, o_files, o_open, o_tif, o_series, o_failed, o_err>>
       ELSE IF ~o_cfg.multifile
       THEN \* return []: the generic detection of series follows
            /\ o_series' = "generic" /\ o_pc' = "indexed"
            /\ UNCHANGED <<o_files, o_open, o_tif, o_ifds, o_failed, o_err, o_idx>>
       ELSE IF file \in o_cfg.missing
       THEN \* TiffFile() raises; the handler calls tif.close()
            /\ o_failed' = file
            /\ IF o_tif = Unbound
               THEN /\ o_err' = "UnboundLocalError" /\ o_pc' = "raised"
                    /\ UNCHANGED <<o_open, o_ifds, o_idx>>
               ELSE /\ o_open' = o_open \ {o_tif}
                    /\ o_ifds' = Append(o_ifds, None)
                    /\ o_idx' = o_idx + 1
                    /\ UNCHANGED <<o_err, o_pc>>
            /\ UNCHANGED <<o_files, o_tif, o_series>>
       ELSE \* the file is opened, its pages are read, it is cached
            /\ o_tif' = file
            /\ o_files' = o_files \cup {file}
            /\ o_open' = CloseAfterIndex(o_cfg.multifile_close,
                                         o_open \cup {file}, file)
            /\ o_ifds' = Append(o_ifds, file)
            /\ o_idx' = o_idx + 1
            /\ UNCHANGED <<o_pc, o_series, o_failed, o_err>>
    /\ UNCHANGED <<o_cfg, o_parent, OOthers>>

\* the end of _omeseries and the generic detection of TiffFile.series
OSeriesDone ==
    /\ o_pc = "series" /\ o_idx > Len(o_cfg.data)
    /\ o_series' = IF \A j \in DOMAIN o_ifds : o_ifds[j] = None
                   THEN "generic" ELSE "ome"
    /\ o_pc' = "indexed"
    /\ UNCHANGED <<o_cfg, o_files, o_open, o_tif, o_ifds, o_failed, o_err, o_idx,
                   o_parent, OOthers>>

PageOutcomes == {"ok", "IOError", "ValueError"}

\* TiffPage.asarray(reopen=True) of a page of file: a closed handle is
\* opened, and closed again unless an exception is raised
ReopenRead(open, file, outcome) ==
    IF file = Master \/ file \in open \/ outcome = "ok" THEN open
    ELSE open \cup {file}

\* TiffFile.asarray of a file whose series are the generic ones: all pages
\* are pages of the master file
OAsarrayGeneric ==
    /\ o_pc = "indexed" /\ o_series = "generic"
    /\ \E outcome \in {"ok", "IOError"} :
          /\ o_pc' = IF outcome = "ok" THEN "returned" ELSE "raised"
          /\ o_err' = IF outcome = "ok" THEN o_err ELSE outcome
    /\ UNCHANGED <<o_cfg, o_files, o_open, o_tif, o_ifds, o_series, o_failed,
                   o_idx, o_parent, OOthers>>

\* TiffFile.asarray up to the loop over the pages of an OME series
OAsarrayStart ==
    /\ o_pc = "indexed" /\ o_series = "ome"
    /\ \E outcome \in {"ok", "IOError"} :
          IF Len(o_ifds) = 1
          THEN \* return pages[0].asarray(memmap=memmap)
               /\ o_open' = ReopenRead(o_open, o_ifds[1], outcome)
               /\ o_pc' = IF outcome = "ok" THEN "returned" ELSE "raised"
               /\ o_err' = IF outcome = "ok" THEN o_err ELSE outcome
               /\ UNCHANGED <<o_idx, o_parent>>
          ELSE IF \E j \in DOMAIN o_ifds : o_ifds[j] = None
          THEN \* nopage = zeros_like(firstpage.asarray(memmap=False))
               LET first == CHOOSE j \in DOMAIN o_ifds :
                                /\ o_ifds[j] # None
                                /\ \A k \in 1..(j - 1) : o_ifds[k] = None
               IN  /\ o_open' = ReopenRead(o_open, o_ifds[first], outcome)
                   /\ IF outcome = "ok"
                      THEN /\ o_pc' = "reading" /\ o_idx' = 1
                           /\ o_parent' = Master /\ UNCHANGED o_err
                      ELSE /\ o_pc' = "raised" /\ o_err' = outcome
                           /\ UNCHANGED <<o_idx, o_parent>>
          ELSE /\ outcome = "ok"
               /\ o_pc' = "reading" /\ o_idx' = 1 /\ o_parent' = Master
               /\ UNCHANGED <<o_open, o_err>>
    /\ UNCHANGED <<o_cfg, o_files, o_tif, o_ifds, o_series, o_failed, OOthers>>

\* KeepOpen.open(page): the handles after it
KeepOpenOpen(close, open, parent, page) ==
    IF close /\ page # None /\ page # parent
    THEN (IF parent # Master THEN open \ {parent} ELSE open)
         \cup (IF page # Master THEN {page} ELSE {})
    ELSE open

\* KeepOpen.open(page): the parent after it
KeepOpenParent(close, parent, page) ==
    IF close /\ page # None /\ page # parent THEN page ELSE parent

\* KeepOpen.close(): the handles after it
KeepOpenClose(close, open, parent) ==
    IF close /\ parent # Master THEN open \ {parent} ELSE open

\* one turn of 'for page in pages' of TiffFile.asarray; after the last
\* turn, or a break, keep.close() is called and the array is returned
OReadPage ==
    /\ o_pc = "reading" /\ o_idx <= Len(o_ifds)
    /\ \E outcome \in PageOutcomes :
          LET close == o_cfg.multifile_close
              page == o_ifds[o_idx]
              opened == KeepOpenOpen(close, o_open, o_parent, page)
              parent == KeepOpenParent(close, o_parent, page)
              \* page.asarray(reopen=False) raises when the handle is closed
              result == IF page = None THEN (IF outcome = "IOError" THEN "ok" ELSE outcome)
                        ELSE IF page # Master /\ page \notin opened THEN "IOError"
                        ELSE outcome
          IN  /\ o_parent' = parent
              /\ IF result = "IOError"
                 THEN /\ o_open' = opened
                      /\ o_pc' = "raised" /\ o_err' = "IOError"
                      /\ UNCHANGED o_idx
                 ELSE IF result = "ValueError" \/ o_idx = Len(o_ifds)
                 THEN /\ o_open' = KeepOpenClose(close, opened, parent)
                      /\ o_pc' = "returned"
                      /\ UNCHANGED <<o_err, o_idx>>
                 ELSE /\ o_open' = opened
                      /\ o_idx' = o_idx + 1
                      /\ UNCHANGED <<o_pc, o_err>>
    /\ UNCHANGED <<o_cfg, o_files, o_tif, o_ifds, o_series, o_failed, OOthers>>

ONext ==
    \/ OIndexData \/ OSeriesDone \/ OAsarrayGeneric \/ OAsarrayStart
    \/ OReadPage
SpecOme == OInit /\ [][ONext]_vars

\* C8: once a file the series refers to could not be read, no exception
\* reaches the caller and the series are those of the generic grouping.
C8_MissingFileFallsBack ==
    o_failed # "none" =>
        /\ o_err # "UnboundLocalError"
        /\ o_pc \in {"indexed", "reading", "returned"} => o_series = "generic"

MaxDims == 3          \* most dimensions of a DM image, most planes of a page

\* what _process_tags reads of the tags of a page
PageTags ==
    [dims : BOOLEAN,                 \* image_length and image_width are tags
     is_stk : BOOLEAN, is_palette : BOOLEAN, is_contig : BOOLEAN,
     is_rgb : BOOLEAN,
     samples_per_pixel : {1, 3}, image_depth : {1, 2},
     planes : 1..MaxDims,            \* tags['uic2tag'].count
     series : {"Z", "T", "I"},       \* what z_distance and time_created tell
     palette_fits : BOOLEAN]         \* color_map.shape[1] >= 2**bits_per_sample

PageResult(shape, axes) == [shape |-> shape, axes |-> axes, err |-> "none"]
Raised(err) == [shape |-> <<>>, axes |-> <<>>, err |-> err]

\* the 'determine shape of data' part of _process_tags
ProcessTags(tg) ==
    LET L == IF tg.dims THEN 5 ELSE 0          \* image_length
        W == IF tg.dims THEN 7 ELSE 0          \* image_width
        D == IF tg.dims THEN tg.image_depth ELSE 0
        S == tg.samples_per_pixel
        result ==
          IF tg.is_stk
          THEN IF D # 1 THEN Raised("AssertionError")
               ELSE LET shape == IF S = 1 THEN <<tg.planes, L, W>>
                                 ELSE IF tg.is_contig THEN <<tg.planes, L, W, S>>
                                 ELSE <<tg.planes, S, L, W>>
                        axes == IF S = 1 THEN <<"Y", "X">>
                                ELSE IF tg.is_contig THEN <<"Y", "X", "S">>
                                ELSE <<"S", "Y", "X">>
                    IN  IF tg.is_palette THEN Raised("AssertionError")
                        ELSE IF tg.planes = 1 THEN PageResult(Tail(shape), axes)
                        ELSE PageResult(shape, <<tg.series>> \o axes)
          ELSE IF tg.is_palette
          THEN IF tg.palette_fits
               THEN IF D = 1 THEN PageResult(<<3, L, W>>, <<"C", "Y", "X">>)
                    ELSE PageResult(<<3, D, L, W>>, <<"C", "Z", "Y", "X">>)
               ELSE IF D = 1 THEN PageResult(<<L, W>>, <<"Y", "X">>)
                    ELSE PageResult(<<D, L, W>>, <<"Z", "Y", "X">>)
          ELSE IF tg.is_rgb \/ S > 1
          THEN IF tg.is_contig
               THEN IF D = 1 THEN PageResult(<<L, W, S>>, <<"Y", "X", "S">>)
                    ELSE PageResult(<<D, L, W, S>>, <<"Z", "Y", "X", "S">>)
               ELSE IF D = 1 THEN PageResult(<<S, L, W>>, <<"S", "Y", "X">>)
                    ELSE PageResult(<<S, D, L, W>>, <<"S", "Z", "Y", "X">>)
          ELSE IF D = 1 THEN PageResult(<<L, W>>, <<"Y", "X">>)
               ELSE PageResult(<<D, L, W>>, <<"Z", "Y", "X">>)
    IN  \* assert len(self.shape) == len(self.axes)
        IF result.err = "none" /\ Len(result.shape) # Len(result.axes)
        THEN Raised("AssertionError") ELSE result

\* what ImageObject reads of the tags of an image: the number of entries of
\* ImageData.Dimensions and of ImageData.Calibrations.Dimension, the type of
\* signal, and whether a calibration has the unit of the energy axis
ImageTags ==
    [dimensions : 0..MaxDims, calibrations : 0..MaxDims,
     signal_type : {"", "EELS", "EDS"}, energy_unit : BOOLEAN]

Max(a, b) == IF a > b THEN a ELSE b
Min(a, b) == IF a < b THEN a ELSE b

\* len(ImageObject.shape)
ShapeLen(im) == im.dimensions

\* len() of ImageObject.scales, offsets and units: the calibrations, filled
\* up with len_diff dummy values
CalibratedLen(im) == Max(im.dimensions, im.calibrations)

\* ImageObject.names: indices = xrange(len(self.shape)) has no pop() and
\* cannot be sliced, so indices[::-1] raises TypeError (AttributeError when
\* the energy axis is looked for first)
NamesError(im) ==
    IF im.signal_type \in {"EELS", "EDS"} /\ im.energy_unit
          /\ im.calibrations > 0
    THEN "AttributeError" ELSE "TypeError"

\* ImageObject.get_axes_dict: one dictionary per element of the izip of
\* names, shape, scales, offsets and units
GetAxesDict(im) ==
    IF NamesError(im) # "none" THEN [axes |-> 0] @@ Raised(NamesError(im))
    ELSE [axes |-> Min(ShapeLen(im), CalibratedLen(im)), shape |-> <<>>,
          err |-> "none"]

PInitShape ==
    /\ p_pc = "start" /\ p_out = <<>>
    /\ p_in \in [kind : {"tiff"}, tags : PageTags]
               \cup [kind : {"dm"}, tags : ImageTags]
    /\ HIdle /\ RIdle /\ DIdle /\ TIdle /\ CIdle /\ OIdle /\ WIdle

POthers == <<hvars, rvars, dvars, tvars, cvars, ovars, wvars>>

\* TiffPage._process_tags
PProcessTags ==
    /\ p_pc = "start" /\ p_in.kind = "tiff"
    /\ p_out' = ProcessTags(p_in.tags)
    /\ p_pc' = "done"
    /\ UNCHANGED <<p_in, POthers>>

\* ImageObject.get_axes_dict
PGetAxesDict ==
    /\ p_pc = "start" /\ p_in.kind = "dm"
    /\ p_out' = GetAxesDict(p_in.tags)
    /\ p_pc' = "done"
    /\ UNCHANGED <<p_in, POthers>>

PNextShape == PProcessTags \/ PGetAxesDict
SpecShape == PInitShape /\ [][PNextShape]_vars

\* C12: a parsed TIFF page has as many axes as its shape has dimensions,
\* and the axes list of a DM image has one entry per dimension of its shape.
C12_AxesMatchShape ==
    p_pc = "done" =>
        IF p_in.kind = "tiff"
        THEN p_out.err = "none" => Len(p_out.shape) = Len(p_out.axes)
        ELSE p_out.err = "none" /\ p_out.axes = ShapeLen(p_in.tags)

(***************************************************************************)
(* Writing a TIFF file: imsave, TiffWriter.__init__ and TiffWriter.save,   *)
(* and reading it back: TiffFile.asarray.                                  *)
(*   w_in          the arguments of imsave: bigtiff (or absent), the data  *)
(*   w_cfg         the format of the writer: _bigtiff, _offset_size, ...   *)
(*   w_file        the bytes of the file: position -> the field written    *)
(*                 there                                                   *)
(*   w_pos         fh.tell()                                               *)
(*   w_ifd_offset  self._ifd_offset                                        *)
(*   w_software    self._software is still to be written                   *)
(*   w_log         the pages written: where the directory of each was put  *)
(*                 and where each plane of its data went                   *)
(*   w_out         what TiffFile(file).asarray() returns                   *)
(* The options photometric, planarconfig, volume, resolution, description  *)
(* and extratags of save keep their defaults.                              *)
(***************************************************************************)
MaxSaves == 2         \* most calls of save on one writer

RECURSIVE Product(_)
Product(shape) == IF shape = <<>> THEN 1 ELSE Head(shape) * Product(Tail(shape))

\* shape[-k:] of Python
LastDims(shape, k) ==
    IF Len(shape) <= k THEN shape
    ELSE SubSeq(shape, Len(shape) - k + 1, Len(shape))

\* shape[:-k]
LeadDims(shape, k) ==
    IF Len(shape) <= k THEN <<>> ELSE SubSeq(shape, 1, Len(shape) - k)

\* shape[-k], 0 when there is no such dimension
DimFromEnd(shape, k) == IF Len(shape) < k THEN 0 ELSE shape[Len(shape) - k + 1]

RECURSIVE StripOnes(_)
\* while len(shape) > 2 and shape[-1] == 1: shape = shape[:-1]
StripOnes(shape) ==
    IF Len(shape) > 2 /\ shape[Len(shape)] = 1
    THEN StripOnes(SubSeq(shape, 1, Len(shape) - 1)) ELSE shape

\* an array: its shape, the kind and the item size of its dtype
Array(shape, kind, itemsize) == [shape |-> shape, kind |-> kind, itemsize |-> itemsize]

\* data.size * data.dtype.itemsize
NBytes(data) == Product(data.shape) * data.itemsize

\* 'normalize shape of data' of save: the 5-D shape (pages, planar samples,
\* height, width, contig samples), the photometric and the planar
\* configuration inferred, or the exception
Normalize(shape) ==
    LET ndim == IF Len(shape) < 2 THEN 2 ELSE Len(shape)     \* atleast_2d
        rgb == ndim > 2 /\ (DimFromEnd(shape, 1) \in {3, 4}
                            \/ DimFromEnd(shape, 3) \in {3, 4})
    IN  IF rgb
        THEN IF DimFromEnd(shape, 1) \in {3, 4}
             THEN [err |-> "none", photometric |-> "rgb", planarconfig |-> "contig",
                   shape |-> <<Product(LeadDims(shape, 3)), 1>> \o LastDims(shape, 3),
                   samplesperpixel |-> DimFromEnd(shape, 1)]
             ELSE [err |-> "none", photometric |-> "rgb", planarconfig |-> "planar",
                   shape |-> <<Product(LeadDims(shape, 3))>> \o LastDims(shape, 3)
                             \o <<1>>,
                   samplesperpixel |-> DimFromEnd(shape, 3)]
        ELSE LET stripped == StripOnes(shape)
                 reshaped == <<Product(LeadDims(stripped, 2)), 1>>
                             \o LastDims(stripped, 2) \o <<1>>
             IN  \* assert len(data.shape) in (5, 6)
                 IF Len(reshaped) # 5
                 THEN [err |-> "AssertionError", photometric |-> "minisblack",
                       planarconfig |-> "None", shape |-> reshaped,
                       samplesperpixel |-> 1]
                 ELSE [err |-> "none", photometric |-> "minisblack",
                       planarconfig |-> "None", shape |-> reshaped,
                       samplesperpixel |-> 1]

\* the value of an expression worked out once: the element of {value}
The(S) == CHOOSE v \in S : TRUE

\* one field of the file: what it is (k), its value (v), its bytes (n) and,
\* for a string or pixel data, its contents (c)
Cell(k, v, n, c) == [k |-> k, v |-> v, n |-> n, c |-> c]

\* fh.seek(pos); fh.write(field)
Write(file, pos, cell) == (pos :> cell) @@ file

RECURSIVE WriteCells(_, _, _)
\* fh.write of several fields one after the other, from pos on
WriteCells(file, pos, cells) ==
    IF cells = <<>> THEN file
    ELSE WriteCells(Write(file, pos, Head(cells)), pos + Head(cells).n, Tail(cells))

RECURSIVE CellsSize(_)
CellsSize(cells) == IF cells = <<>> THEN 0 ELSE Head(cells).n + CellsSize(Tail(cells))

\* TiffWriter.__init__: the format of the file
WriterFormat(bigtiff) ==
    IF bigtiff
    THEN [bigtiff |-> TRUE, version |-> 43, offset_size |-> 8, tag_size |-> 20,
          numtag_size |-> 8, header_size |-> 8]
    ELSE [bigtiff |-> FALSE, version |-> 42, offset_size |-> 4, tag_size |-> 12,
          numtag_size |-> 2, header_size |-> 4]

\* TiffWriter.__init__: the header and the empty first-IFD field behind it
NewFile(fmt) ==
    LET header == Write(<<>>, 0, Cell("hdr", fmt.version, fmt.header_size, <<"II">>))
    IN  Write(header, fmt.header_size, Cell("ptr", 0, fmt.offset_size, <<>>))

\* addtag of save: one entry of the directory. A value that does not fit
\* the entry goes behind the directory (ifdvalue) and the entry holds 0
AddTag(offset_size, code, itemsize, count, values, writeonce) ==
    IF count = 1 \/ itemsize * count <= offset_size
    THEN [code |-> code, dtype |-> "n", size |-> itemsize, count |-> count, value |-> values[1],
          ifdvalue |-> <<>>, writeonce |-> writeonce]
    ELSE [code |-> code, dtype |-> "n", size |-> itemsize, count |-> count, value |-> 0,
          ifdvalue |-> [i \in 1..count |-> Cell("val", values[i], itemsize, <<>>)],
          writeonce |-> writeonce]

\* addtag of a string (dtype 's'): the text and a closing NUL
AddString(offset_size, code, text, length, writeonce) ==
    IF length + 1 = 1 \/ length + 1 <= offset_size
    THEN [code |-> code, dtype |-> "s", size |-> 1, count |-> length + 1, value |-> 0,
          ifdvalue |-> <<>>, writeonce |-> writeonce]
    ELSE [code |-> code, dtype |-> "s", size |-> 1, count |-> length + 1, value |-> 0,
          ifdvalue |-> <<Cell("str", 0, length + 1, text)>>,
          writeonce |-> writeonce]

RECURSIVE ShapeTextLen(_)
\* len(",".join('%i' % i for i in shape))
ShapeTextLen(shape) ==
    IF shape = <<>> THEN 0
    ELSE Len(PyStr(Head(shape))) + (IF Len(shape) > 1 THEN 1 ELSE 0)
         + ShapeTextLen(Tail(shape))

RECURSIVE SortByCode(_)
\* sorted(tags, key=lambda x: x[0])
SortByCode(tags) ==
    IF tags = {} THEN <<>>
    ELSE LET least == CHOOSE t \in tags : \A o \in tags : t.code <= o.code
         IN  <<least>> \o SortByCode(tags \ {least})

Repeated(n, v) == [i \in 1..n |-> v]

\* dtype.kind -> sample_format
SampleFormat(kind) == IF kind = "u" THEN 1 ELSE IF kind = "i" THEN 2 ELSE 3

\* the tags of the pages of one call of save, in the order of the directory
SaveTags(fmt, data, norm, compress, writeshape, software) ==
    LET o == fmt.offset_size
        shape == norm.shape
        spp == norm.samplesperpixel
        planebytes == shape[3] * shape[4] * shape[5] * data.itemsize
    IN  SortByCode(
          (IF software
           THEN {AddString(o, 305, <<"tifffile.py">>, 11, TRUE)} ELSE {})
          \cup (IF writeshape /\ shape[1] > 1 /\ shape # data.shape
                THEN {AddString(o, 270, <<"shape=", data.shape>>,
                                8 + ShapeTextLen(data.shape), TRUE)}
                ELSE {})
          \cup {AddString(o, 306, <<"datetime">>, 19, TRUE),
                AddTag(o, 259, 2, 1, <<IF compress THEN 32946 ELSE 1>>, FALSE),
                AddTag(o, 274, 2, 1, <<1>>, FALSE),
                AddTag(o, 256, 4, 1, <<shape[4]>>, FALSE),
                AddTag(o, 257, 4, 1, <<shape[3]>>, FALSE),
                AddTag(o, 254, 4, 1, <<IF shape[1] = 1 THEN 0 ELSE 2>>, FALSE),
                AddTag(o, 339, 2, 1, <<SampleFormat(data.kind)>>, FALSE),
                AddTag(o, 262, 2, 1,
                       <<IF norm.photometric = "rgb" THEN 2 ELSE 1>>, FALSE),
                AddTag(o, 277, 2, 1, <<spp>>, FALSE),
                AddTag(o, 278, 4, 1, <<shape[3]>>, FALSE),
                AddTag(o, 279, o, shape[2], Repeated(shape[2], planebytes), FALSE),
                AddTag(o, 273, o, shape[2], Repeated(shape[2], 0), FALSE)}
          \cup (IF norm.planarconfig # "None" /\ spp > 1
                THEN {AddTag(o, 284, 2, 1,
                             <<IF norm.planarconfig = "contig" THEN 1 ELSE 2>>,
                             FALSE),
                      AddTag(o, 258, 2, spp, Repeated(spp, data.itemsize * 8),
                             FALSE)}
                ELSE {AddTag(o, 258, 2, 1, <<data.itemsize * 8>>, FALSE)})
          \cup (IF spp > 3
                THEN {AddTag(o, 338, 2, spp - 3,
                             IF norm.photometric = "rgb" /\ spp - 3 = 1
                             THEN <<1>> ELSE Repeated(spp - 3, 0), FALSE)}
                ELSE {}))

\* the two fields of every entry of a directory: code, type (the bytes of
\* one value of it) and count, then the value or its offset
EntryCells(fmt, tags) ==
    IF tags = <<>> THEN <<>>
    ELSE [j \in 1..(2 * Len(tags)) |->
            IF j % 2 = 1
            THEN Cell("entry", tags[(j + 1) \div 2].code, 4 + fmt.offset_size,
                      <<tags[(j + 1) \div 2].count, tags[(j + 1) \div 2].size,
                        tags[(j + 1) \div 2].dtype>>)
            ELSE Cell("slot", tags[j \div 2].value, fmt.offset_size, <<>>)]

\* the position the writer patches for the tag at tagindex (from 0)
PatchPosNoCount(fmt, tag_offset, tagindex) ==
    tag_offset + tagindex * fmt.tag_size + 4
PatchPos(fmt, tag_offset, tagindex) ==
    tag_offset + tagindex * fmt.tag_size + fmt.offset_size + 4

\* self._ifd_offset left at the field it was at
KeepIfdOffset(old, tell) == old
\* self._ifd_offset = fh.tell()
IfdOffsetAfter(old, tell) == tell

RECURSIVE WriteValues(_, _, _, _)
\* 'write tag values and patch offsets in ifdentries': w is the file, the
\* position and the places of the offsets and the byte counts so far
WriteValues(fmt, tag_offset, tags, w) ==
    IF w.tagindex = Len(tags) THEN w
    ELSE LET tag == tags[w.tagindex + 1]
             written ==
                 IF tag.ifdvalue = <<>> THEN [w EXCEPT !.tagindex = @ + 1]
                 ELSE [tagindex |-> w.tagindex + 1,
                       file |-> WriteCells(
                           Write(w.file, PatchPos(fmt, tag_offset, w.tagindex),
                                 Cell("slot", w.pos, fmt.offset_size, <<>>)),
                           w.pos, tag.ifdvalue),
                       pos |-> w.pos + CellsSize(tag.ifdvalue),
                       strip_offsets_offset |->
                           IF tag.code = 273 THEN w.pos ELSE w.strip_offsets_offset,
                       strip_byte_counts_offset |->
                           IF tag.code = 279 THEN w.pos
                           ELSE w.strip_byte_counts_offset]
         IN  The({WriteValues(fmt, tag_offset, tags, next) : next \in {written}})

\* len(zlib.compress(plane)): it depends on the contents of the plane
Deflated(plane) == 9 + ((plane[1] + plane[2] + 2 * plane[3]) % 4)

RECURSIVE Starts(_, _)
\* strip_offset = data_offset; for size in ...: strip_offset += size
Starts(from, sizes) ==
    IF sizes = <<>> THEN <<>> ELSE <<from>> \o Starts(from + Head(sizes), Tail(sizes))

\* the index (from 0) of the tag of a code in the directory
TagIndex(tags, code) == (CHOOSE i \in 1..Len(tags) : tags[i].code = code) - 1

\* one turn of 'for pageindex in xrange(shape[0])' without the removal of
\* the writeonce tags: the directory, the values, the data, the patches
WritePage(fmt, st, tags, compress, planes, planebytes, id) ==
    LET o == fmt.offset_size
        start == st.pos
        linked == Write(st.file, st.ifd_offset, Cell("ptr", start, o, <<>>))
        counted == Write(linked, start, Cell("num", Len(tags), fmt.numtag_size, <<>>))
        tag_offset == start + fmt.numtag_size
        entries == EntryCells(fmt, tags)
        listed == WriteCells(counted, tag_offset, entries)
        ifd_offset == IfdOffsetAfter(st.ifd_offset, tag_offset + CellsSize(entries))
        ended == Write(listed, tag_offset + CellsSize(entries),
                       Cell("ptr", 0, o, <<>>))
        strip_byte_counts ==
            [s \in 1..planes |-> IF compress THEN Deflated(id \o <<s>>)
                                 ELSE planebytes]
        datacells == [s \in 1..planes |->
                        Cell("data", IF compress THEN 1 ELSE 0,
                             strip_byte_counts[s], id \o <<s>>)]
        offsets == tags[TagIndex(tags, 273) + 1]
        counts == tags[TagIndex(tags, 279) + 1]
        \* the data and the patches, once the values are written
        Patched(valued) ==
            LET data_offset == valued.pos
                filled == WriteCells(valued.file, data_offset, datacells)
                pos == data_offset + CellsSize(datacells)
                strip_offsets == Starts(data_offset, strip_byte_counts)
                patched1 ==
                    IF offsets.ifdvalue # <<>>
                    THEN WriteCells(filled, valued.strip_offsets_offset,
                                    [s \in 1..planes |->
                                       Cell("val", strip_offsets[s], o, <<>>)])
                    ELSE Write(filled,
                               PatchPos(fmt, tag_offset, TagIndex(tags, 273)),
                               Cell("slot", data_offset, o, <<>>))
                patched2 ==
                    IF ~compress THEN patched1
                    ELSE IF counts.ifdvalue # <<>>
                    THEN WriteCells(patched1, valued.strip_byte_counts_offset,
                                    [s \in 1..planes |->
                                       Cell("val", strip_byte_counts[s], o, <<>>)])
                    ELSE Write(patched1,
                               PatchPos(fmt, tag_offset, TagIndex(tags, 279)),
                               Cell("slot", strip_byte_counts[1], o, <<>>))
            IN  [file |-> patched2, pos |-> pos, ifd_offset |-> ifd_offset,
                 page |-> [ifd |-> start, id |-> id, offsets |-> strip_offsets,
                           counts |-> strip_byte_counts]]
    IN  The({Patched(valued) :
               valued \in {WriteValues(fmt, tag_offset, tags,
                              [tagindex |-> 0, file |-> ended,
                               pos |-> tag_offset + CellsSize(entries) + o,
                               strip_offsets_offset |-> 0,
                               strip_byte_counts_offset |-> 0])}})

\* tags = [t for t in tags if not t[-1]]
DropWriteOnce(tags) == SelectSeq(tags, LAMBDA t : ~t.writeonce)

RECURSIVE WritePages(_, _, _, _, _, _, _, _)
\* for pageindex in xrange(shape[0]): ...
WritePages(fmt, st, tags, compress, shape, itemsize, save, pageindex) ==
    IF pageindex = shape[1] THEN st
    ELSE LET page == WritePage(fmt, st, tags, compress, shape[2],
                               shape[3] * shape[4] * shape[5] * itemsize,
                               <<save, pageindex>>)
             Then(w, kept) ==
                 WritePages(fmt,
                            [file |-> w.file, pos |-> w.pos,
                             ifd_offset |-> w.ifd_offset,
                             log |-> Append(st.log, w.page)],
                            kept, compress, shape, itemsize, save, pageindex + 1)
         IN  The({Then(w, kept) :
                    w \in {page},
                    kept \in {IF pageindex = 0 THEN DropWriteOnce(tags) ELSE tags}})

\* TiffWriter.save: the state of the writer after the call, or the exception
Save(fmt, st, data, compress, writeshape, software, save) ==
    LET norm == Normalize(data.shape)
    IN  IF norm.err # "none" THEN [st EXCEPT !.err = norm.err]
        \* fh.tell() + data.size * data.dtype.itemsize > 2**31 - 1
        ELSE IF ~fmt.bigtiff /\ NBytes(data) > (2147483647 - st.pos)
        THEN [st EXCEPT !.err = "ValueError"]
        ELSE LET Pages(tags) ==
                     WritePages(fmt, [file |-> st.file, pos |-> st.pos,
                                      ifd_offset |-> st.ifd_offset,
                                      log |-> st.log],
                                tags, compress, norm.shape, data.itemsize, save, 0)
                 Closed(done) ==
                     [file |-> done.file, pos |-> done.pos,
                      ifd_offset |-> done.ifd_offset, log |-> done.log,
                      err |-> "none"]
                 written ==
                     {Pages(tags) :
                        tags \in {SaveTags(fmt, data, norm, compress, writeshape,
                                           software)}}
             IN  The({Closed(done) : done \in written})

(***************************************************************************)
(* Reading the file back: TiffFile._fromfile, TiffPage._fromfile,          *)
(* TiffTag._fromfile, TiffPage._process_tags, TiffFile.series,             *)
(* TiffPage.asarray and TiffFile.asarray.                                  *)
(***************************************************************************)
\* what a read finds where no field of that kind starts
Garbage == Cell("garbage", 0 - 1, 0, <<>>)

\* fh.seek(pos); fh.read(...): the field of kind k that starts at pos
CellAt(file, pos, k) ==
    IF pos \in DOMAIN file /\ file[pos].k = k THEN file[pos] ELSE Garbage

\* TiffFile._fromfile: the offset size the version of the header gives
ReadOffsetSize(file) ==
    LET version == CellAt(file, 0, "hdr").v
    IN  IF version = 43 THEN 8 ELSE IF version = 42 THEN 4 ELSE 0

RECURSIVE ReadChain(_, _, _, _)
\* while True: page = TiffPage(self): the offsets of the directories, from
\* the pointer at ptrpos on, until a pointer is 0
ReadChain(file, osize, ptrpos, fuel) ==
    LET offset == CellAt(file, ptrpos, "ptr").v
        numtags == CellAt(file, offset, "num").v
    IN  IF offset = 0 \/ fuel = 0 THEN <<>>   \* StopIteration
        ELSE <<offset>> \o ReadChain(file, osize,
                 offset + CountFieldSize(osize) + numtags * EntrySize(osize),
                 fuel - 1)

\* TiffFile.pages as offsets of directories
ReadPageOffsets(file) ==
    LET osize == ReadOffsetSize(file)
    IN  ReadChain(file, osize, IF osize = 8 THEN 8 ELSE 4, Cardinality(DOMAIN file))

\* TiffTag._fromfile: the values of the tag whose entry starts at e
ReadTagValues(file, osize, e) ==
    LET entry == CellAt(file, e, "entry")
        count == entry.c[1]
        size == entry.c[2]
        slot == CellAt(file, e + osize + 4, "slot")
    IN  IF entry = Garbage THEN <<>>
        ELSE IF entry.c[3] = "s"
        THEN IF size * count > osize /\ CellAt(file, slot.v, "str") # Garbage
             THEN CellAt(file, slot.v, "str").c ELSE <<"">>
        ELSE IF size * count <= osize THEN Repeated(count, slot.v)
        ELSE [i \in 1..count |-> CellAt(file, slot.v + (i - 1) * size, "val").v]

\* page.tags[code].value of the page at offset; default when there is no
\* such tag in the directory
PageTag(file, osize, offset, code, default) ==
    LET numtags == CellAt(file, offset, "num").v
        EntryAt(i) == offset + CountFieldSize(osize) + (i - 1) * EntrySize(osize)
        found == {i \in 1..numtags : CellAt(file, EntryAt(i), "entry").v = code}
    IN  IF found = {} THEN default
        ELSE ReadTagValues(file, osize, EntryAt(CHOOSE i \in found : TRUE))

\* TIFF_SAMPLE_FORMATS and TIFF_SAMPLE_DTYPES: the kind of the dtype, "" if
\* the format and the bits give no dtype
ReadKind(sample_format, bits) ==
    IF sample_format = 1 /\ (bits \in 1..32 \/ bits = 64) THEN "u"
    ELSE IF sample_format = 2 /\ bits \in {8, 16, 32, 64} THEN "i"
    ELSE IF sample_format = 3 /\ bits \in {16, 32, 64} THEN "f"
    ELSE ""

\* TiffPage.__init__: the attributes of the page at offset that reading
\* its data needs
ReadPage(file, osize, offset) ==
    LET T(code, default) == PageTag(file, osize, offset, code, default)
        length == T(257, <<0>>)[1]
        width == T(256, <<0>>)[1]
        spp == T(277, <<1>>)[1]
        is_rgb == T(262, <<0>>)[1] = 2
        is_contig == T(284, <<1>>)[1] = 1
        bits == T(258, <<1>>)[1]
    IN  [offset |-> offset,
         shape |-> IF is_rgb \/ spp > 1
                   THEN IF is_contig THEN <<length, width, spp>>
                        ELSE <<spp, length, width>>
                   ELSE <<length, width>>,
         axes |-> IF is_rgb \/ spp > 1
                  THEN IF is_contig THEN "YXS" ELSE "SYX"
                  ELSE "YX",
         planes |-> IF (is_rgb \/ spp > 1) /\ ~is_contig THEN spp ELSE 1,
         planebytes |-> IF (is_rgb \/ spp > 1) /\ is_contig
                        THEN length * width * spp * (bits \div 8)
                        ELSE length * width * (bits \div 8),
         kind |-> ReadKind(T(339, <<1>>)[1], bits),
         itemsize |-> bits \div 8,
         compression |-> T(259, <<1>>)[1],
         description |-> T(270, <<>>),
         strip_offsets |-> T(273, <<>>),
         strip_byte_counts |-> T(279, <<>>)]

\* TiffPage.is_shaped
IsShaped(page) == page.description # <<>> /\ page.description[1] = "shape="

\* TiffPage.is_contiguous
IsContiguous(page) ==
    /\ page.compression = 1
    /\ Len(page.strip_offsets) >= 1
    /\ Len(page.strip_byte_counts) >= Len(page.strip_offsets)
    /\ \A i \in 1..(Len(page.strip_offsets) - 1) :
          page.strip_offsets[i] + page.strip_byte_counts[i]
              = page.strip_offsets[i + 1]

\* the bytes of one plane, read with the byte count the page has for it
ReadPlane(file, pos, bytecount) ==
    LET cell == CellAt(file, pos, "data")
    IN  IF cell # Garbage /\ cell.n = bytecount THEN cell.c ELSE <<"garbage">>

\* TiffPage.asarray of an untiled page: the array or the exception
PageAsarray(file, page) ==
    IF page.kind = ""
    THEN [err |-> "data type not supported", shape |-> <<>>, kind |-> "",
          itemsize |-> 0, planes |-> <<>>]
    ELSE IF page.compression \notin {1, 32946}
    THEN [err |-> "cannot decompress", shape |-> <<>>, kind |-> "",
          itemsize |-> 0, planes |-> <<>>]
    ELSE [err |-> "none", shape |-> page.shape, kind |-> page.kind,
          itemsize |-> page.itemsize,
          planes |->
            IF IsContiguous(page)
            THEN [s \in 1..page.planes |->
                    ReadPlane(file, page.strip_offsets[1] + (s - 1) * page.planebytes,
                              page.planebytes)]
            ELSE [s \in 1..page.planes |->
                    IF s <= Len(page.strip_offsets) /\ s <= Len(page.strip_byte_counts)
                    THEN ReadPlane(file, page.strip_offsets[s],
                                   page.strip_byte_counts[s])
                    ELSE <<"garbage">>]]

\* TiffFile.series[0]: the pages and the shape of the first series
FirstSeries(pages) ==
    LET page0 == pages[1]
        Key(page) == <<page.shape, page.axes, page.compression \in {1, 32946}>>
        same == SelectSeq(pages, LAMBDA page : Key(page) = Key(page0))
    IN  IF IsShaped(page0)
        THEN [pages |-> pages, shape |-> page0.description[2]]
        ELSE [pages |-> same,
              shape |-> IF Len(same) > 1 THEN <<Len(same)>> \o page0.shape
                        ELSE page0.shape]

RECURSIVE Concat(_)
Concat(seqs) == IF seqs = <<>> THEN <<>> ELSE Head(seqs) \o Concat(Tail(seqs))

\* stack_pages and the reshape at the end of TiffFile.asarray
StackPages(file, series) ==
    LET arrays == [i \in 1..Len(series.pages) |-> PageAsarray(file, series.pages[i])]
        first == arrays[1]
        failed == {i \in 1..Len(arrays) : arrays[i].err # "none"}
        Cast(a) == IF a.kind = first.kind /\ a.itemsize = first.itemsize
                   THEN a.planes
                   ELSE [s \in 1..Len(a.planes) |-> <<"cast">> \o a.planes[s]]
        stacked == <<Len(arrays)>> \o first.shape
    IN  IF failed # {}
        THEN [arrays[CHOOSE i \in failed : \A j \in failed : i <= j]
                EXCEPT !.shape = <<>>]
        ELSE IF \E i \in 1..Len(arrays) : arrays[i].shape # first.shape
        THEN [err |-> "ValueError", shape |-> <<>>, kind |-> "", itemsize |-> 0,
              planes |-> <<>>]
        ELSE [err |-> "none",
              shape |-> IF Product(series.shape) = Product(stacked)
                        THEN series.shape
                        ELSE IF Product(stacked) % Product(series.shape) = 0
                        THEN <<Product(stacked) \div Product(series.shape)>>
                             \o series.shape
                        ELSE <<Len(arrays)>> \o first.shape,
              kind |-> first.kind, itemsize |-> first.itemsize,
              planes |-> Concat([i \in 1..Len(arrays) |-> Cast(arrays[i])])]

\* TiffFile(file).asarray(): the array or the exception
FileAsarray(file) ==
    LET osize == ReadOffsetSize(file)
        offsets == ReadPageOffsets(file)
        pages == [i \in 1..Len(offsets) |-> ReadPage(file, osize, offsets[i])]
    IN  IF offsets = <<>>
        THEN [err |-> "empty TIFF file", shape |-> <<>>, kind |-> "",
              itemsize |-> 0, planes |-> <<>>]
        ELSE LET series == FirstSeries(pages)
             IN  IF Len(series.pages) = 1 THEN PageAsarray(file, series.pages[1])
                 ELSE StackPages(file, series)

\* the arrays written: imsave is given any of Arrays, save any of SaveArrays
Shapes == {<<6>>, <<2, 3>>, <<1, 2, 5>>, <<2, 2, 5>>, <<2, 5, 3>>, <<3, 2, 5>>,
           <<2, 3, 2, 5>>}
Arrays ==
    {Array(shape, "u", 1) : shape \in Shapes}
    \cup {Array(shape, "f", 4) : shape \in Shapes}
    \cup {Array(<<2000, 1048576>>, "u", 1), Array(<<2001, 1048576>>, "u", 1)}
SaveArrays ==
    {Array(shape, "u", 1) : shape \in {<<6>>, <<2, 2, 5>>, <<3, 2, 5>>}}

WInit ==
    /\ WIdle
    /\ HIdle /\ RIdle /\ DIdle /\ TIdle /\ CIdle /\ OIdle /\ PIdle

WOthers == <<hvars, rvars, dvars, tvars, cvars, ovars, pvars>>

\* BigTIFF already for data of exactly 2000 * 2**20 bytes
ImsaveBigtiffFromThreshold(bigtiff, data) ==
    IF bigtiff = "absent" THEN NBytes(data) >= 2000 * (2 ^ 20)
    ELSE bigtiff = "True"
\* imsave: is the file a BigTIFF file
ImsaveBigtiff(bigtiff, data) ==
    IF bigtiff = "absent" THEN NBytes(data) > 2000 * (2 ^ 20)
    ELSE bigtiff = "True"

\* imsave(filename, data, bigtiff=..., compress=...): a writer is made, the
\* data are saved with writeshape=True and the file is closed
ImSave ==
    /\ w_pc = "idle"
    /\ \E bigtiff \in {"absent", "True", "False"}, data \in Arrays,
          compress \in BOOLEAN :
          LET fmt == WriterFormat(ImsaveBigtiff(bigtiff, data))
              saved == Save(fmt, [file |-> NewFile(fmt),
                                  pos |-> fmt.header_size + fmt.offset_size,
                                  ifd_offset |-> fmt.header_size,
                                  log |-> <<>>, err |-> "none"],
                            data, compress, TRUE, TRUE, 1)
          IN  \E done \in {saved} :
              /\ w_in' = [via |-> "imsave", bigtiff |-> bigtiff,
                          saves |-> <<[data |-> data, compress |-> compress,
                                       writeshape |-> TRUE, err |-> done.err]>>]
              /\ w_cfg' = fmt
              /\ w_file' = done.file
              /\ w_pos' = done.pos
              /\ w_ifd_offset' = done.ifd_offset
              /\ w_software' = (done.err # "none")
              /\ w_log' = done.log
              /\ w_pc' = IF done.err = "none" THEN "closed" ELSE "raised"
    /\ UNCHANGED <<w_out, WOthers>>

\* TiffWriter(filename, bigtiff=...)
WOpen ==
    /\ w_pc = "idle"
    /\ \E bigtiff \in BOOLEAN :
          LET fmt == WriterFormat(bigtiff)
          IN  /\ w_in' = [via |-> "TiffWriter",
                          bigtiff |-> IF bigtiff THEN "True" ELSE "False",
                          saves |-> <<>>]
              /\ w_cfg' = fmt
              /\ w_file' = NewFile(fmt)
              /\ w_pos' = fmt.header_size + fmt.offset_size
              /\ w_ifd_offset' = fmt.header_size
    /\ w_software' = TRUE
    /\ w_pc' = "open"
    /\ UNCHANGED <<w_log, w_out, WOthers>>

\* writer.save(data, compress=..., writeshape=...)
WSave ==
    /\ w_pc = "open"
    /\ Len(w_in.saves) < MaxSaves
    /\ \E data \in SaveArrays, compress \in BOOLEAN, writeshape \in BOOLEAN :
          LET saved == Save(w_cfg, [file |-> w_file, pos |-> w_pos,
                                    ifd_offset |-> w_ifd_offset, log |-> w_log,
                                    err |-> "none"],
                            data, compress, writeshape, w_software,
                            Len(w_in.saves) + 1)
          IN  \E done \in {saved} :
              /\ w_in' = [w_in EXCEPT !.saves =
                            Append(@, [data |-> data, compress |-> compress,
                                       writeshape |-> writeshape,
                                       err |-> done.err])]
              /\ w_file' = done.file
              /\ w_pos' = done.pos
              /\ w_ifd_offset' = done.ifd_offset
              /\ w_software' = (w_software /\ done.err # "none")
              /\ w_log' = done.log
    /\ UNCHANGED <<w_pc, w_cfg, w_out, WOthers>>

\* writer.close()
WClose ==
    /\ w_pc = "open"
    /\ w_pc' = "closed"
    /\ UNCHANGED <<w_in, w_cfg, w_file, w_pos, w_ifd_offset, w_software, w_log,
                   w_out, WOthers>>

\* TiffFile(filename).asarray()
WRead ==
    /\ w_pc \in {"closed", "raised"}
    /\ w_out' = FileAsarray(w_file)
    /\ w_pc' = "read"
    /\ UNCHANGED <<w_in, w_cfg, w_file, w_pos, w_ifd_offset, w_software, w_log,
                   WOthers>>

WNext == ImSave \/ WOpen \/ WSave \/ WClose \/ WRead

SpecWriter == WInit /\ [][WNext]_vars

\* the array A as a read of its file has to return it: the shape and the
\* dtype of A and its planes in the order they have in A
AsWritten(data) ==
    LET shape == Normalize(data.shape).shape
    IN  [err |-> "none", shape |-> data.shape, kind |-> data.kind,
         itemsize |-> data.itemsize,
         planes |-> Concat([p \in 1..shape[1] |->
                              [q \in 1..shape[2] |-> <<1, p - 1, q>>]])]

\* C13: for an integer or float array A of at most 4 dimensions, reading the
\* file that imsave wrote for A, compressed or not, returns A: the write does
\* not fail and the array read has the shape, the dtype and the contents of A.
C13_RoundTrip ==
    (w_pc \in {"raised", "read"} /\ w_in.via = "imsave")
        => /\ w_pc = "read"
           /\ w_in.saves[1].err = "none"
           /\ w_out = AsWritten(w_in.saves[1].data)

\* the position of the next-IFD field of the directory at offset, as a
\* reader of the file computes it
NextField(file, offset) ==
    offset + CountFieldSize(ReadOffsetSize(file))
    + CellAt(file, offset, "num").v * EntrySize(ReadOffsetSize(file))

\* C14: after any sequence of save calls on one writer the chain of the file
\* from the first-IFD field of the header is the pages written, each once and
\* in the order written: the header points to the first page, every page to
\* the one written after it, and the next-IFD field of the last page is 0.
C14_ChainLinksPages ==
    w_pc \in {"open", "closed", "read"}
        => /\ ReadPageOffsets(w_file) = [i \in 1..Len(w_log) |-> w_log[i].ifd]
           /\ \A i, j \in 1..Len(w_log) : i < j => w_log[i].ifd < w_log[j].ifd
           /\ CellAt(w_file, IF w_cfg.bigtiff THEN 8 ELSE 4, "ptr").v
                 = IF w_log = <<>> THEN 0 ELSE w_log[1].ifd
           /\ \A i \in 1..Len(w_log) :
                 CellAt(w_file, NextField(w_file, w_log[i].ifd), "ptr").v
                     = IF i = Len(w_log) THEN 0 ELSE w_log[i + 1].ifd

\* two calls of save were made, one of them wrote several pages
C14_Witness ==
    /\ w_pc = "closed"
    /\ Len(w_in.saves) = 2
    /\ Len(w_log) >= 3
    /\ w_log[Len(w_log)].id[1] = 2

\* C15: for every page written, the offsets entry of its directory holds for
\* each plane the position where the data of that plane start in the file
\* and the byte-counts entry the number of bytes written for it, with and
\* without compression; no offset is left 0.
C15_OffsetsPatched ==
    w_pc \in {"open", "closed", "read"}
        => \A i \in 1..Len(w_log) :
              LET page == ReadPage(w_file, ReadOffsetSize(w_file), w_log[i].ifd)
                  planes == Len(w_log[i].counts)
              IN  /\ Len(page.strip_offsets) = planes
                  /\ Len(page.strip_byte_counts) = planes
                  /\ \A q \in 1..planes :
                        /\ page.strip_offsets[q] # 0
                        /\ CellAt(w_file, page.strip_offsets[q], "data").c
                              = w_log[i].id \o <<q>>
                        /\ CellAt(w_file, page.strip_offsets[q], "data").n
                              = page.strip_byte_counts[q]

\* a compressed page of several planes that is not the first page of its
\* call of save, and a page of one plane, have been written
C15_Witness ==
    /\ w_pc = "closed"
    /\ \E i \in 1..Len(w_log) :
          /\ w_log[i].id[2] >= 1
          /\ Len(w_log[i].counts) > 1
          /\ w_in.saves[w_log[i].id[1]].compress

\* a page of one plane, whose offset is in the entry, has been written
\* after the first page of a compressed save
C15_WitnessInline ==
    /\ w_pc = "closed"
    /\ \E i \in 1..Len(w_log) :
          /\ w_log[i].id[2] >= 1
          /\ Len(w_log[i].counts) = 1
          /\ w_in.saves[w_log[i].id[1]].compress

\* C16 as stated: imsave writes a BigTIFF file (version 43, offset size 8)
\* exactly when the caller passed no 'bigtiff' and the data are more than
\* 2000 * 2**20 bytes, and a classic file (version 42, offset size 4) in
\* every other case.
C16_BigTiffOnlyBySize ==
    (w_pc \in {"closed", "raised", "read"} /\ w_in.via = "imsave")
        => LET big == w_in.bigtiff = "absent"
                      /\ NBytes(w_in.saves[1].data) > 2000 * (2 ^ 20)
           IN  /\ CellAt(w_file, 0, "hdr").v = IF big THEN 43 ELSE 42
               /\ w_cfg.offset_size = IF big THEN 8 ELSE 4

\* C16: imsave writes a BigTIFF file (version 43, offset size 8) when the
\* caller passed bigtiff=True, or passed no 'bigtiff' and the data are more
\* than 2000 * 2**20 bytes; it writes a classic file (version 42, offset
\* size 4) when the caller passed bigtiff=False, or passed no 'bigtiff' and
\* the data are at most 2000 * 2**20 bytes.
C16_BigTiffSelection ==
    (w_pc \in {"closed", "raised", "read"} /\ w_in.via = "imsave")
        => LET big == \/ w_in.bigtiff = "True"
                      \/ /\ w_in.bigtiff = "absent"
                         /\ NBytes(w_in.saves[1].data) > 2000 * (2 ^ 20)
           IN  /\ CellAt(w_file, 0, "hdr").v = IF big THEN 43 ELSE 42
               /\ w_cfg.offset_size = IF big THEN 8 ELSE 4
               /\ ReadOffsetSize(w_file) = w_cfg.offset_size

\* imsave was given no 'bigtiff' and data of exactly 2000 * 2**20 bytes
C16_Witness ==
    /\ w_pc = "closed"
    /\ w_in.via = "imsave"
    /\ w_in.bigtiff = "absent"
    /\ NBytes(w_in.saves[1].data) = 2000 * (2 ^ 20)
    /\ ~w_cfg.bigtiff

(***************************************************************************)
(* The compression of a page: TIFF_COMPESSIONS, TIFF_DECOMPESSORS, the     *)
(* validation of the tags in TiffPage._process_tags and the checks at the  *)
(* start of TiffPage.asarray.  p_in is the compression, the sample format  *)
(* and the bits per sample of the page, p_out the exception or the page.   *)
(***************************************************************************)
\* the compression codes of the pages read; 99 is no code of TIFF_COMPESSIONS
CompressionCodes == {1, 2, 5, 7, 8, 99, 32773, 32946}

InTiffCompressions(code) == code \in {1, 2, 5, 7, 8, 32773, 32946}

\* TIFF_COMPESSIONS[code]
CompressionName(code) ==
    IF code = 1 THEN "None"
    ELSE IF code = 2 THEN "ccittrle"
    ELSE IF code = 5 THEN "lzw"
    ELSE IF code = 7 THEN "jpeg"
    ELSE IF code = 8 THEN "adobe_deflate"
    ELSE IF code = 32773 THEN "packbits"
    ELSE "deflate"

\* TIFF_DECOMPESSORS with its 'jpeg' entry in place
WithJpegDecompressor(name) ==
    name \in {"None", "adobe_deflate", "deflate", "packbits", "lzw", "jpeg"}
\* name in TIFF_DECOMPESSORS
InTiffDecompressors(name) ==
    name \in {"None", "adobe_deflate", "deflate", "packbits", "lzw"}

\* an exception and what its message names
Exception(type, text, what) == [err |-> type, text |-> text, what |-> what]

\* TiffPage._process_tags: the validation of the compression tag and the
\* look-up of the sample format, then the dtype
ValidatePage(tg) ==
    IF ~InTiffCompressions(tg.compression)
    THEN Exception("ValueError", "compression.value not supported",
                   PyStr(tg.compression))
    ELSE IF tg.sample_format \notin {1, 2, 3, 6}
    THEN Exception("KeyError", "", PyStr(tg.sample_format))
    ELSE [err |-> "none", compression |-> CompressionName(tg.compression),
          dtype |-> ReadKind(tg.sample_format, tg.bits_per_sample)]

\* TiffPage.asarray up to the read of the data
DecodePage(page) ==
    IF page.dtype = ""
    THEN Exception("ValueError", "data type not supported", "")
    ELSE IF ~InTiffDecompressors(page.compression)
    THEN Exception("ValueError", "cannot decompress", page.compression)
    ELSE Exception("none", "", "")

PInitDecode ==
    /\ p_pc = "idle"
    /\ p_in \in [compression : CompressionCodes, sample_format : {1, 2, 3, 5},
                 bits_per_sample : {8, 12, 16, 64}]
    /\ p_out = <<>>
    /\ HIdle /\ RIdle /\ DIdle /\ TIdle /\ CIdle /\ OIdle /\ WIdle

\* TiffPage(parent): the page, or the exception of _process_tags
PPageInit ==
    /\ p_pc = "idle"
    /\ p_out' = ValidatePage(p_in)
    /\ p_pc' = IF ValidatePage(p_in).err = "none" THEN "page" ELSE "raised"
    /\ UNCHANGED <<p_in, POthers>>

\* page.asarray()
PPageAsarray ==
    /\ p_pc = "page"
    /\ p_out' = DecodePage(p_out)
    /\ p_pc' = "done"
    /\ UNCHANGED <<p_in, POthers>>

PNextDecode == PPageInit \/ PPageAsarray

SpecDecode == PInitDecode /\ [][PNextDecode]_vars

\* C17 as stated: a page whose compression is unknown (no code of
\* TIFF_COMPESSIONS) or unsupported (no decompressor) cannot be read, and
\* the attempt ends with the error "cannot decompress" naming the codec.
C17_CannotDecompress ==
    (p_pc \in {"raised", "done"}
     /\ p_in.compression \notin {1, 5, 8, 32773, 32946})
        => /\ p_out.err = "ValueError"
           /\ p_out.text = "cannot decompress"

\* C17: reading the data of a page that was parsed, whose dtype is
\* supported and whose compression (CCITT RLE, JPEG) has no decompressor,
\* fails with
\* ValueError "cannot decompress" naming the codec; a page whose compression
\* is no code of TIFF_COMPESSIONS is rejected when it is parsed, with
\* ValueError "compression.value (code) not supported"; no page of an
\* unknown or unsupported compression is read.
C17_UnsupportedCodecError ==
    /\ (p_pc = "done" /\ p_in.compression \in {2, 7}
        /\ ReadKind(p_in.sample_format, p_in.bits_per_sample) # "")
          => p_out = Exception("ValueError", "cannot decompress",
                               CompressionName(p_in.compression))
    /\ (p_pc # "idle" /\ p_in.compression = 99)
          => /\ p_pc = "raised"
             /\ p_out = Exception("ValueError", "compression.value not supported",
                                  PyStr(p_in.compression))
    /\ (p_pc = "done" /\ p_in.compression \in {2, 7})
          => p_out.err = "ValueError"

\* the data of a JPEG page of 8-bit unsigned samples were asked for
C17_Witness ==
    /\ p_pc = "done"
    /\ p_in.compression = 7
    /\ p_in.sample_format = 1 /\ p_in.bits_per_sample = 8
    /\ p_out.text = "cannot decompress"

(***************************************************************************)
(* Reading a tiled page: the tile branch of TiffPage.asarray.  p_in is the *)
(* page (the extent of the image, the extent of a tile, the planes), p_out *)
(* the result array and the counters of the loop over the tiles.  The k-th *)
(* tile of the file (from 0) holds <<k, z, y, x>> at (z, y, x) of the tile.*)
(***************************************************************************)
MaxImage == 3         \* largest image_length and image_width
MaxTile == 2          \* largest tile_length and tile_width

TiledPages ==
    [image_depth : 1..2, image_length : 1..MaxImage, image_width : 1..MaxImage,
     tile_depth : 1..2, tile_length : 1..MaxTile, tile_width : 1..MaxTile,
     planes : 1..2]

\* (image + tile - 1) // tile
TileCount(image, tile) == (image + tile - 1) \div tile

\* shape = (shape[0], shape[1], td * tile_depth, tl * tile_length,
\*          tw * tile_width, shape[-1]) without the two dimensions that are 1
PaddedShape(page) ==
    [planes |-> page.planes,
     depth |-> TileCount(page.image_depth, page.tile_depth) * page.tile_depth,
     length |-> TileCount(page.image_length, page.tile_length) * page.tile_length,
     width |-> TileCount(page.image_width, page.tile_width) * page.tile_width]

\* the indices of an array of a shape
Indices(shape) ==
    (0..(shape.planes - 1)) \X (0..(shape.depth - 1))
    \X (0..(shape.length - 1)) \X (0..(shape.width - 1))

\* len(offsets): the tiles of the file
TilesInFile(page) ==
    page.planes * TileCount(page.image_depth, page.tile_depth)
    * TileCount(page.image_length, page.tile_length)
    * TileCount(page.image_width, page.tile_width)

\* result[0, pl, td:td + tile_depth, tl:tl + tile_length,
\*        tw:tw + tile_width, :] = tile
PlaceTile(result, page, at, k) ==
    [c \in DOMAIN result |->
        IF /\ c[1] = at.pl
           /\ c[2] >= at.td /\ c[2] < at.td + page.tile_depth
           /\ c[3] >= at.tl /\ c[3] < at.tl + page.tile_length
           /\ c[4] >= at.tw /\ c[4] < at.tw + page.tile_width
        THEN <<k, c[2] - at.td, c[3] - at.tl, c[4] - at.tw>>
        ELSE result[c]]

\* the counters advanced with the length fastest
AdvanceLengthFirst(at, page, shape) ==
    IF at.tl + page.tile_length < shape.length
    THEN [at EXCEPT !.tl = @ + page.tile_length]
    ELSE IF at.tw + page.tile_width < shape.width
    THEN [at EXCEPT !.tl = 0, !.tw = @ + page.tile_width]
    ELSE IF at.td + page.tile_depth < shape.depth
    THEN [at EXCEPT !.tl = 0, !.tw = 0, !.td = @ + page.tile_depth]
    ELSE [at EXCEPT !.tl = 0, !.tw = 0, !.td = 0, !.pl = @ + 1]
\* tw += tile_width; if tw >= shape[4]: tw, tl = 0, tl + tile_length; ...
Advance(at, page, shape) ==
    IF at.tw + page.tile_width < shape.width
    THEN [at EXCEPT !.tw = @ + page.tile_width]
    ELSE IF at.tl + page.tile_length < shape.length
    THEN [at EXCEPT !.tw = 0, !.tl = @ + page.tile_length]
    ELSE IF at.td + page.tile_depth < shape.depth
    THEN [at EXCEPT !.tw = 0, !.tl = 0, !.td = @ + page.tile_depth]
    ELSE [at EXCEPT !.tw = 0, !.tl = 0, !.td = 0, !.pl = @ + 1]

PInitTiles ==
    /\ p_pc = "idle"
    /\ p_in \in TiledPages
    /\ p_out = <<>>
    /\ HIdle /\ RIdle /\ DIdle /\ TIdle /\ CIdle /\ OIdle /\ WIdle

\* result = numpy.empty(shape, dtype); tw, tl, td, pl = 0, 0, 0, 0
PTileAlloc ==
    /\ p_pc = "idle"
    /\ p_out' = [shape |-> PaddedShape(p_in),
                 result |-> [c \in Indices(PaddedShape(p_in)) |-> <<>>],
                 at |-> [tw |-> 0, tl |-> 0, td |-> 0, pl |-> 0],
                 k |-> 0]
    /\ p_pc' = "tiles"
    /\ UNCHANGED <<p_in, POthers>>

\* one turn of 'for offset, bytecount in izip(offsets, byte_counts)'
PTilePlace ==
    /\ p_pc = "tiles"
    /\ p_out.k < TilesInFile(p_in)
    /\ p_out' = [p_out EXCEPT
                   !.result = PlaceTile(@, p_in, p_out.at, p_out.k),
                   !.at = Advance(@, p_in, p_out.shape),
                   !.k = @ + 1]
    /\ UNCHANGED <<p_pc, p_in, POthers>>

\* result = result[..., :image_depth, :image_length, :image_width, :]
PTileCrop ==
    /\ p_pc = "tiles"
    /\ p_out.k = TilesInFile(p_in)
    /\ LET shape == [planes |-> p_in.planes, depth |-> p_in.image_depth,
                     length |-> p_in.image_length, width |-> p_in.image_width]
       IN  p_out' = [p_out EXCEPT
                       !.shape = shape,
                       !.result = [c \in Indices(shape) |-> p_out.result[c]]]
    /\ p_pc' = "cropped"
    /\ UNCHANGED <<p_in, POthers>>

PNextTiles == PTileAlloc \/ PTilePlace \/ PTileCrop

SpecTiles == PInitTiles /\ [][PNextTiles]_vars

\* the least multiple of tile that is at least image
WholeTiles(image, tile) ==
    CHOOSE n \in image..(image + tile - 1) : n % tile = 0

\* the index in the file of the tile that covers (pl, z, y, x): the tiles
\* of the grid in row-major order, width fastest, then length, depth, plane
TileOf(page, c) ==
    ((c[1] * (WholeTiles(page.image_depth, page.tile_depth) \div page.tile_depth)
      + (c[2] \div page.tile_depth))
     * (WholeTiles(page.image_length, page.tile_length) \div page.tile_length)
     + (c[3] \div page.tile_length))
    * (WholeTiles(page.image_width, page.tile_width) \div page.tile_width)
    + (c[4] \div page.tile_width)

\* C18: the buffer of a tiled page is padded to whole tiles in depth,
\* length and width; every tile read so far lies at its position of the
\* tile grid in row-major order (width fastest, then length, depth, plane);
\* and the array returned has the depth, length and width of the image and
\* holds at every index the sample of the tile that covers it.
C18_TilesPlacedAndCropped ==
    /\ p_pc = "tiles"
          => /\ p_out.shape =
                  [planes |-> p_in.planes,
                   depth |-> WholeTiles(p_in.image_depth, p_in.tile_depth),
                   length |-> WholeTiles(p_in.image_length, p_in.tile_length),
                   width |-> WholeTiles(p_in.image_width, p_in.tile_width)]
             /\ DOMAIN p_out.result = Indices(p_out.shape)
             /\ \A c \in DOMAIN p_out.result :
                   p_out.result[c] =
                       IF TileOf(p_in, c) < p_out.k
                       THEN <<TileOf(p_in, c), c[2] % p_in.tile_depth,
                              c[3] % p_in.tile_length, c[4] % p_in.tile_width>>
                       ELSE <<>>
    /\ p_pc = "cropped"
          => /\ DOMAIN p_out.result =
                  (0..(p_in.planes - 1)) \X (0..(p_in.image_depth - 1))
                  \X (0..(p_in.image_length - 1)) \X (0..(p_in.image_width - 1))
             /\ \A c \in DOMAIN p_out.result :
                   p_out.result[c] =
                       <<TileOf(p_in, c), c[2] % p_in.tile_depth,
                         c[3] % p_in.tile_length, c[4] % p_in.tile_width>>

\* an image of two planes was read whose tiles divide neither its depth,
\* nor its length, nor its width
C18_Witness ==
    /\ p_pc = "cropped"
    /\ p_in.planes = 2
    /\ p_in.image_depth % p_in.tile_depth # 0
    /\ p_in.image_length % p_in.tile_length # 0
    /\ p_in.image_width % p_in.tile_width # 0
    /\ p_in.image_width > p_in.tile_width
    /\ p_in.image_length > p_in.tile_length

(***************************************************************************)
(* decodelzw.  p_in is the byte string that was encoded and the strip made *)
(* of it (bytes as numbers), p_out the local variables of decodelzw.       *)
(* The strip is made by a TIFF LZW encoder: CLEAR, the codes of the        *)
(* greedy dictionary coder, EOI; the codes are 9 bits wide and 10, 11 and  *)
(* 12 bits from the code after table entry 511, 1023 and 2047 was added.   *)
(***************************************************************************)
MaxBytes == 3         \* longest of the short byte strings encoded

\* the table entry of a code: a single byte, or an entry added (from 258)
EntryOf(added, code) == IF code < 256 THEN <<code>> ELSE added[code - 257]

\* the code of a string in the table of the encoder, 0 - 1 if it has none
CodeOf(added, str) ==
    IF Len(str) = 1 THEN str[1]
    ELSE IF \E i \in 1..Len(added) : added[i] = str
    THEN 257 + (CHOOSE i \in 1..Len(added) : added[i] = str)
    ELSE 0 - 1

\* one step of the greedy coder: the byte c joins the string matched so
\* far, or the code of that string is put out and a table entry is added
CoderStep(st, c) ==
    IF CodeOf(st.added, Append(st.w, c)) >= 0
    THEN [st EXCEPT !.w = Append(@, c)]
    ELSE [codes |-> Append(st.codes, CodeOf(st.added, st.w)),
          added |-> Append(st.added, Append(st.w, c)),
          w |-> <<c>>]

RECURSIVE CoderRun(_, _, _, _)
\* the coder over bytes[from..to], by halves
CoderRun(st, bytes, from, to) ==
    IF from > to THEN st
    ELSE IF from = to THEN CoderStep(st, bytes[from])
    ELSE LET left == CoderRun(st, bytes, from, (from + to) \div 2)
         IN  IF Len(left.codes) >= 0      \* the left half is coded first
             THEN CoderRun(left, bytes, ((from + to) \div 2) + 1, to)
             ELSE left

\* the codes of the greedy dictionary coder for a byte string
LzwCodes(bytes) ==
    LET st == CoderRun([codes |-> <<>>, added |-> <<>>, w |-> <<>>],
                       bytes, 1, Len(bytes))
    IN  IF st.w = <<>> THEN st.codes
        ELSE Append(st.codes, CodeOf(st.added, st.w))

\* the width of the code that follows n codes after CLEAR
WidthAfter(n) ==
    IF n < 254 THEN 9 ELSE IF n < 766 THEN 10 ELSE IF n < 1790 THEN 11 ELSE 12

\* the bits of a code, most significant first
BitsOf(code, width) == [i \in 1..width |-> (code \div (2 ^ (width - i))) % 2]

RECURSIVE PackBits(_, _, _)
\* the bits of codes[from..to], by halves; codes[i] follows i - 1 codes
PackBits(codes, from, to) ==
    IF from > to THEN <<>>
    ELSE IF from = to THEN BitsOf(codes[from], WidthAfter(from - 1))
    ELSE PackBits(codes, from, (from + to) \div 2)
         \o PackBits(codes, ((from + to) \div 2) + 1, to)

\* the bytes of a bit string, the last byte filled with 0 bits
BytesOf(bits) ==
    [j \in 1..((Len(bits) + 7) \div 8) |->
        LET Bit(i) == IF 8 * (j - 1) + i <= Len(bits) THEN bits[8 * (j - 1) + i]
                      ELSE 0
        IN  128 * Bit(1) + 64 * Bit(2) + 32 * Bit(3) + 16 * Bit(4)
            + 8 * Bit(5) + 4 * Bit(6) + 2 * Bit(7) + Bit(8)]

\* the strip of a byte string
LzwEncode(bytes) ==
    LET codes == Append(LzwCodes(bytes), 257)
    IN  BytesOf(BitsOf(256, 9) \o PackBits(codes, 1, Len(codes)))

\* next_code: the bitw bits at bitcount of the strip.  The code reads four
\* bytes, shifts by bitcount % 8 and masks; the fourth byte never reaches
\* the bits kept (7 + 12 <= 24), so three bytes give the same number
NextCode(encoded, bitcount, bitw) ==
    LET start == bitcount \div 8
        Byte(i) == IF start + i <= Len(encoded) THEN encoded[start + i] ELSE 0
        word == 65536 * Byte(1) + 256 * Byte(2) + Byte(3)
        r == bitcount % 8
    IN  (word % (2 ^ (24 - r))) \div (2 ^ (24 - r - bitw))

\* switchbitch: the width after the table has grown to lentable entries
SwitchWidth(lentable, bitw) ==
    IF lentable = 511 THEN 10
    ELSE IF lentable = 1023 THEN 11
    ELSE IF lentable = 2047 THEN 12
    ELSE bitw

\* the table entries are made of unichr(i): the strings decoded are unicode
RECURSIVE JoinRange(_, _, _)
\* result[from..to] joined, by halves
JoinRange(result, from, to) ==
    IF from > to THEN <<>>
    ELSE IF from = to THEN result[from]
    ELSE JoinRange(result, from, (from + to) \div 2)
         \o JoinRange(result, ((from + to) \div 2) + 1, to)

\* ''.join(result)
JoinResult(result) == PyUnicode(JoinRange(result, 1, Len(result)))

\* the bytes 0, 1, ..., 255 and then 0, 2, 4, 6: 259 codes, the last of
\* them 10 bits wide
LongBytes == [i \in 1..260 |-> IF i <= 256 THEN i - 1 ELSE 2 * (i - 257)]

LzwInputs ==
    {[bytes |-> b, encoded |-> LzwEncode(b)] :
        b \in (SeqsUpTo({65, 200}, MaxBytes) \ {<<>>}) \cup {LongBytes}}

PInitLzw ==
    /\ p_pc = "idle"
    /\ p_in \in LzwInputs
    /\ p_out = <<>>
    /\ HIdle /\ RIdle /\ DIdle /\ TIdle /\ CIdle /\ OIdle /\ WIdle

\* decodelzw up to the loop: the checks of the length and of the first code
PLzwStart ==
    /\ p_pc = "idle"
    /\ IF Len(p_in.encoded) < 4 \/ NextCode(p_in.encoded, 0, 9) # 256
       THEN /\ p_pc' = "raised"
            /\ p_out' = [err |-> "ValueError"]
       ELSE /\ p_pc' = "loop"
            /\ p_out' = [err |-> "none", bitcount |-> 0, bitw |-> 9,
                         added |-> <<>>, lentable |-> 0, code |-> 0,
                         oldcode |-> 0, result |-> <<>>, value |-> PyBytes(<<>>)]
    /\ UNCHANGED <<p_in, POthers>>

\* one turn of 'while True'; the turn that breaks also joins the result
PLzwStep ==
    /\ p_pc = "loop"
    /\ LET encoded == p_in.encoded
           code == NextCode(encoded, p_out.bitcount, p_out.bitw)
           bitcount == p_out.bitcount + p_out.bitw
           first == NextCode(encoded, bitcount, 9)
       IN  IF code = 257 \/ bitcount >= Len(encoded) * 8
           THEN /\ p_pc' = "done"
                /\ p_out' = [p_out EXCEPT !.code = code, !.bitcount = bitcount,
                                          !.value = JoinResult(p_out.result)]
           ELSE IF code = 256
           THEN IF first = 257
                THEN /\ p_pc' = "done"
                     /\ p_out' = [p_out EXCEPT
                                    !.code = first, !.bitcount = bitcount + 9,
                                    !.added = <<>>, !.lentable = 258, !.bitw = 9,
                                    !.value = JoinResult(p_out.result)]
                ELSE IF first >= 256
                THEN /\ p_pc' = "raised"
                     /\ p_out' = [p_out EXCEPT
                                    !.err = IF first = 256 THEN "TypeError"
                                            ELSE "IndexError"]
                ELSE /\ p_pc' = "loop"
                     /\ p_out' = [p_out EXCEPT
                                    !.code = first, !.oldcode = first,
                                    !.bitcount = bitcount + 9,
                                    !.added = <<>>, !.lentable = 258, !.bitw = 9,
                                    !.result = Append(@, <<first>>)]
           ELSE LET newcode ==
                        IF code < p_out.lentable
                        THEN Append(EntryOf(p_out.added, p_out.oldcode),
                                    EntryOf(p_out.added, code)[1])
                        ELSE Append(EntryOf(p_out.added, p_out.oldcode),
                                    EntryOf(p_out.added, p_out.oldcode)[1])
                    decoded == IF code < p_out.lentable
                               THEN EntryOf(p_out.added, code) ELSE newcode
                IN  /\ p_pc' = "loop"
                    /\ p_out' = [p_out EXCEPT
                                   !.code = code, !.oldcode = code,
                                   !.bitcount = bitcount,
                                   !.added = Append(@, newcode),
                                   !.lentable = @ + 1,
                                   !.bitw = SwitchWidth(p_out.lentable + 1, @),
                                   !.result = Append(@, decoded)]
    /\ UNCHANGED <<p_in, POthers>>

PNextLzw == PLzwStart \/ PLzwStep

SpecLzw == PInitLzw /\ [][PNextLzw]_vars

\* a == b of Python 2 for two strings: a unicode string and a byte string
\* are equal if the byte string is ASCII and has the same characters
PyStringsEqual(a, b) ==
    /\ a.s = b.s
    /\ a.t # b.t => \A i \in 1..Len(a.s) : a.s[i] < 128

\* C19: decodelzw decodes every strip that begins with CLEAR and ends with
\* EOI: it does not fail, the codes are read 9 bits wide and 10, 11 and 12
\* bits wide from table sizes 511, 1023 and 2047 on, and what it returns
\* is the byte string that was encoded.
C19_DecodesWhatWasEncoded ==
    /\ p_pc # "raised"
    /\ p_pc = "loop" =>
          p_out.bitw = IF p_out.lentable < 511 THEN 9
                       ELSE IF p_out.lentable < 1023 THEN 10
                       ELSE IF p_out.lentable < 2047 THEN 11 ELSE 12
    /\ p_pc = "done" =>
          /\ p_out.code = 257
          /\ PyStringsEqual(p_out.value, PyBytes(p_in.bytes))

(***************************************************************************)
(* TiffFile.series behind lazyattr.  p_in is the page list of a file and   *)
(* the dialect of its first page, p_out the instance attribute that        *)
(* lazyattr sets and the groupings returned so far.  A page is its shape,  *)
(* its axes, whether its compression can be decoded and whether it is a    *)
(* reduced image; a series is its axes, its shape and the indices of its   *)
(* pages.  The dtype of a series is the dtype of its first page and is     *)
(* left out.  The OME dialect is the subject of SpecOme.                   *)
(***************************************************************************)
MaxSeriesPages == 3   \* most pages of a file
MaxAccess == 3        \* most groupings asked for

SeriesPages ==
    {[shape |-> <<2, 3>>, axes |-> "YX", decodable |-> TRUE, is_reduced |-> FALSE],
     [shape |-> <<4, 4>>, axes |-> "YX", decodable |-> TRUE, is_reduced |-> TRUE],
     [shape |-> <<2, 3>>, axes |-> "YX", decodable |-> FALSE, is_reduced |-> FALSE],
     [shape |-> <<>>, axes |-> "", decodable |-> TRUE, is_reduced |-> FALSE]}

Dialects == {"fluoview", "lsm", "imagej", "nih", "shaped", "generic"}

\* page0.mm_header.dimensions reversed, page0.cz_lsm_info, page0.imagej_tags
\* and the shape of page0.image_description of the files read
MmDimensions(n) == <<<<"TIME", n>>, <<"WAVELENGTH", 1>>, <<"Y", 2>>, <<"X", 3>>>>
LsmShape(n) == <<1, 1, n, 2, 3>>
ImagejTags == [frames |-> 2]
ShapedShape(n) == <<n, 1, 2, 3>>

Record(axes, shape, pages) == [axes |-> axes, shape |-> shape, pages |-> pages]

\* dims.get(name, 'Q')
FluoviewAxis(name) ==
    IF name \in {"X", "Y", "Z", "T"} THEN name
    ELSE IF name = "WAVELENGTH" THEN "C"
    ELSE IF name = "TIME" THEN "T"
    ELSE IF name = "XY" THEN "R"
    ELSE IF name = "EVENT" THEN "V"
    ELSE IF name = "EXPOSURE" THEN "L"
    ELSE "Q"

\* the FluoView branch: the dimensions longer than 1
FluoviewSeries(pages) ==
    LET mmhd == SelectSeq(MmDimensions(Len(pages)), LAMBDA d : d[2] > 1)
    IN  <<Record([i \in 1..Len(mmhd) |-> FluoviewAxis(mmhd[i][1])],
                 [i \in 1..Len(mmhd) |-> mmhd[i][2]], [i \in 1..Len(pages) |-> i])>>

RECURSIVE LsmReducedDims(_, _, _, _)
\* while cp < len(pages) and i < len(shape) - 2: cp *= shape[i]; i += 1
LsmReducedDims(shape, count, cp, i) ==
    IF cp < count /\ i < Len(shape) - 2
    THEN LsmReducedDims(shape, count, cp * shape[i + 1], i + 1) ELSE i

\* the indices of the pages that satisfy a test, in page order
PagesWhere(pages, Test(_)) ==
    SelectSeq([i \in 1..Len(pages) |-> i], LAMBDA i : Test(pages[i]))

\* the LSM branch: the full images, then the reduced images
LsmSeries(pages) ==
    LET axes == <<"T", "C", "Z", "Y", "X">>
        full == PagesWhere(pages, LAMBDA page : ~page.is_reduced)
        reduced == PagesWhere(pages, LAMBDA page : page.is_reduced)
        shape == LsmShape(Len(full))
        i == LsmReducedDims(shape, Len(reduced), 1, 0)
    IN  IF full = <<>> THEN <<Raised("IndexError")>>
        ELSE <<Record(axes, shape, full)>>
             \o (IF reduced = <<>> THEN <<>>
                 ELSE <<Record(SubSeq(axes, 1, i) \o <<"C", "Y", "X">>,
                               SubSeq(shape, 1, i) \o pages[reduced[1]].shape,
                               reduced)>>)

\* page.axes as a sequence of letters
AxesOf(page) == IF page.axes = "" THEN <<>> ELSE <<"Y", "X">>

\* the ImageJ branch
ImagejSeries(pages) ==
    LET remain == Len(pages) \div ImagejTags.frames
    IN  <<Record(<<"T">> \o (IF remain > 1 THEN <<"I">> ELSE <<>>)
                 \o AxesOf(pages[1]),
                 <<ImagejTags.frames>> \o (IF remain > 1 THEN <<remain>> ELSE <<>>)
                 \o pages[1].shape,
                 [i \in 1..Len(pages) |-> i])>>

\* the NIH branch
NihSeries(pages) ==
    IF Len(pages) = 1
    THEN <<Record(AxesOf(pages[1]), pages[1].shape, <<1>>)>>
    ELSE <<Record(<<"I">> \o AxesOf(pages[1]), <<Len(pages)>> \o pages[1].shape,
                  [i \in 1..Len(pages) |-> i])>>

\* the branch of a file with a shape in its description
ShapedSeries(pages) ==
    <<Record([i \in 1..4 |-> "Q"], ShapedShape(Len(pages)),
             [i \in 1..Len(pages) |-> i])>>

\* the key of a page in the generic detection
SeriesKey(page) == <<page.shape, page.axes, page.decodable>>

RECURSIVE FirstSeen(_, _)
\* shapes: the keys of the pages with a shape, each where it is first met
FirstSeen(pages, seen) ==
    IF pages = <<>> THEN seen
    ELSE IF Head(pages).shape = <<>>
            \/ \E i \in 1..Len(seen) : seen[i] = SeriesKey(Head(pages))
    THEN FirstSeen(Tail(pages), seen)
    ELSE FirstSeen(Tail(pages), Append(seen, SeriesKey(Head(pages))))

\* the keys in any order, as the iteration of a dict may give them
InDictOrder(keys) ==
    {order \in [1..Len(keys) -> {keys[i] : i \in 1..Len(keys)}] :
        \A i, j \in 1..Len(keys) : i # j => order[i] # order[j]}
\* 'for s in shapes': the keys in the order of the list
InListOrder(keys) == {keys}

\* the generic detection for the keys in an order
GenericSeries(pages, order) ==
    [k \in 1..Len(order) |->
        LET members == PagesWhere(pages, LAMBDA page : page.shape # <<>>
                                              /\ SeriesKey(page) = order[k])
            page == pages[members[1]]
        IN  IF Len(members) > 1
            THEN Record(<<"I">> \o AxesOf(page), <<Len(members)>> \o page.shape,
                        members)
            ELSE Record(AxesOf(page), page.shape, members)]

RECURSIVE Sum(_)
Sum(shape) == IF shape = <<>> THEN 0 ELSE Head(shape) + Sum(Tail(shape))

\* TiffFile.series: the groupings the code can return for a file
SeriesOf(file) ==
    LET pages == file.pages
        vendor == IF file.dialect = "fluoview" THEN FluoviewSeries(pages)
                  ELSE IF file.dialect = "lsm" THEN LsmSeries(pages)
                  ELSE IF file.dialect = "imagej" THEN ImagejSeries(pages)
                  ELSE IF file.dialect = "nih" THEN NihSeries(pages)
                  ELSE IF file.dialect = "shaped" THEN ShapedSeries(pages)
                  ELSE <<>>
    IN  IF pages = <<>> THEN {<<>>}
        ELSE IF vendor # <<>> /\ vendor[1] = Raised("IndexError") THEN {vendor}
        ELSE {SelectSeq(series, LAMBDA record : Sum(record.shape) > 0) :
                series \in IF vendor # <<>> THEN {vendor}
                           ELSE {GenericSeries(pages, order) :
                                   order \in InListOrder(FirstSeen(pages, <<>>))}}

PInitSeries ==
    /\ p_pc = "idle"
    /\ p_in \in [pages : SeqsUpTo(SeriesPages, MaxSeriesPages) \ {<<>>},
                 dialect : Dialects]
                \cup {[pages |-> <<>>, dialect |-> "generic"]}
    /\ p_out = [cached |-> FALSE, series |-> <<>>, returned |-> <<>>]
    /\ HIdle /\ RIdle /\ DIdle /\ TIdle /\ CIdle /\ OIdle /\ WIdle

\* tif.series: lazyattr.__get__ computes the value and sets it as attribute
\* of the instance, which is what every later access finds
PSeriesGet ==
    /\ p_pc \in {"idle", "read"}
    /\ Len(p_out.returned) < MaxAccess
    /\ \E value \in SeriesOf(p_in) :
          p_out' = IF p_out.cached
                   THEN [p_out EXCEPT !.returned = Append(@, p_out.series)]
                   ELSE [cached |-> TRUE, series |-> value,
                         returned |-> Append(p_out.returned, value)]
    /\ p_pc' = "read"
    /\ UNCHANGED <<p_in, POthers>>

\* TiffFile(...).series of another instance for the same pages
PSeriesAgain ==
    /\ p_pc \in {"idle", "read"}
    /\ Len(p_out.returned) < MaxAccess
    /\ \E value \in SeriesOf(p_in) :
          p_out' = [p_out EXCEPT !.returned = Append(@, value)]
    /\ p_pc' = "read"
    /\ UNCHANGED <<p_in, POthers>>

PNextSeries == PSeriesGet \/ PSeriesAgain

SpecSeries == PInitSeries /\ [][PNextSeries]_vars

MaxTagTurns == 2      \* most tags of the group

TagKinds == {20, 21, 19, 22}
TagStarts == {16, 22, 40}
LoopTags ==
    SeqsUpTo([namelen : {0, 4}, tag_id : TagKinds, body : {0, 6}], MaxTagTurns)

RECURSIVE OpsSize(_)
\* the bytes by which reads and relative seeks move the cursor
OpsSize(ops) == IF ops = <<>> THEN 0 ELSE Head(ops).n + OpsSize(Tail(ops))

\* DM3TagIDError(address of the tag)
TagIDErrorOfAddress(tag_id, tag_at) == tag_at
\* raise DM3TagIDError(tag_header['tag_id'])
TagIDErrorValue(tag_id, tag_at) == tag_id

PInitTagLoop ==
    /\ p_pc = "loop"
    /\ p_in \in [start : TagStarts, tags : LoopTags]
    /\ p_out = [tell |-> p_in.start, tag |-> 1, tag_at |-> 0, printed |-> "none",
                err |-> "none", value |-> "none"]
    /\ HIdle /\ RIdle /\ DIdle /\ TIdle /\ CIdle /\ OIdle /\ WIdle

\* tag_header = self.parse_tag_header()
PTagHeader ==
    /\ p_pc = "loop" /\ p_out.tag <= Len(p_in.tags)
    /\ p_out' = [p_out EXCEPT
                   !.tag_at = p_out.tell,
                   !.tell = @ + OpsSize(ParseTagHeader(p_in.tags[p_out.tag].namelen))]
    /\ p_pc' = "header"
    /\ UNCHANGED <<p_in, POthers>>

\* tag_id is 21 or 20: the data are read, or the tags of the group parsed
PTagBody ==
    /\ p_pc = "header" /\ p_in.tags[p_out.tag].tag_id \in {20, 21}
    /\ p_out' = [p_out EXCEPT !.tell = @ + p_in.tags[p_out.tag].body,
                              !.tag = @ + 1]
    /\ p_pc' = "loop"
    /\ UNCHANGED <<p_in, POthers>>

\* else: print u'File address:', self.f.tell(); raise DM3TagIDError(...)
PTagUnknown ==
    /\ p_pc = "header" /\ p_in.tags[p_out.tag].tag_id \notin {20, 21}
    /\ p_out' = [p_out EXCEPT
                   !.printed = p_out.tell,
                   !.err = "DM3TagIDError",
                   !.value = TagIDErrorValue(p_in.tags[p_out.tag].tag_id,
                                             p_out.tag_at)]
    /\ p_pc' = "raised"
    /\ UNCHANGED <<p_in, POthers>>

\* the loop is over
PTagsRead ==
    /\ p_pc = "loop" /\ p_out.tag > Len(p_in.tags)
    /\ p_pc' = "done"
    /\ UNCHANGED <<p_in, p_out, POthers>>

PNextTagLoop == PTagHeader \/ PTagBody \/ PTagUnknown \/ PTagsRead

SpecTagLoop == PInitTagLoop /\ [][PNextTagLoop]_vars

\* C21 as stated: a kind that is neither 20 nor 21 raises a tag-ID error
\* that carries the file offset of the offending tag, and the parse of the
\* file stops there.
C21_ErrorCarriesOffset ==
    (p_pc \notin {"loop", "header"}
       /\ \E i \in 1..Len(p_in.tags) : p_in.tags[i].tag_id \notin {20, 21}) =>
        /\ p_pc = "raised" /\ p_out.err = "DM3TagIDError"
        /\ p_out.value = p_out.tag_at
        /\ ~ENABLED PNextTagLoop

\* C21: a kind that is neither 20 nor 21 raises a tag-ID error that carries
\* the kind read; the file address printed ahead of the raise is the
\* position behind the header of that tag, which is the first such tag of
\* the group, and the parse of the file stops there.
C21_ErrorCarriesTagId ==
    (p_pc \notin {"loop", "header"}
       /\ \E i \in 1..Len(p_in.tags) : p_in.tags[i].tag_id \notin {20, 21}) =>
        /\ p_pc = "raised" /\ p_out.err = "DM3TagIDError"
        /\ p_out.value = p_in.tags[p_out.tag].tag_id
        /\ p_out.value \notin {20, 21}
        /\ \A i \in 1..(p_out.tag - 1) : p_in.tags[i].tag_id \in {20, 21}
        /\ p_out.printed = p_out.tag_at + 3 + p_in.tags[p_out.tag].namelen
        /\ p_out.tell = p_out.printed
        /\ ~ENABLED PNextTagLoop

\* the second tag of the group, at position 22, is of kind 22
C21_Witness ==
    /\ p_pc = "raised" /\ p_out.tag = 2
    /\ p_out.value = 22 /\ p_out.tag_at = 22 + 3 /\ p_out.printed = 22 + 3 + 3 + 4

\* a name made of a prefix and a number
IsNumbered(name, prefix) ==
    /\ Len(name) > Len(prefix)
    /\ SubSeq(name, 1, Len(prefix)) = prefix
    /\ \A i \in (Len(prefix) + 1)..Len(name) :
          name[i] \in {"0", "1", "2", "3", "4", "5", "6", "7", "8", "9"}

\* the numbered names of a group are prefix0, prefix1, ... in this order
CountedFromZero(names, prefix) ==
    LET numbered == SelectSeq(names, LAMBDA name : IsNumbered(name, prefix))
    IN  \A k \in 1..Len(numbered) : numbered[k] = prefix \o PyStr(k - 1)

\* C22: within each tag group the unnamed data tags are named Data0, Data1,
\* ... and the unnamed group tags TagGroup0, TagGroup1, ... in order of
\* appearance, each kind with its own counter that starts at 0 for every
\* parent group.
C22_UnnamedTagsCounted ==
    \A g \in 1..Len(d_stack) :
        /\ CountedFromZero(d_stack[g].names, N_Data)
        /\ CountedFromZero(d_stack[g].names, N_TagGroup)
        /\ d_stack[g].names = <<>> => d_stack[g].unnamed_group = 0

\* the root group has an unnamed data tag and an unnamed group, in which an
\* unnamed data tag was read
C22_Witness ==
    /\ Len(d_stack) = 2
    /\ d_stack[1].names = <<N_Data \o <<"0">>, N_TagGroup \o <<"0">>>>
    /\ d_stack[2].name = N_TagGroup \o <<"0">>
    /\ d_stack[2].names = <<N_Data \o <<"0">>>>

(***************************************************************************)
(* The primitive reads of utils_readfile: read_short, read_ushort,         *)
(* read_long, read_ulong, read_float, read_double, read_boolean, read_byte *)
(* and read_char.  p_in is the read called, its byte order, the size of    *)
(* the file and the position of the cursor; p_out is f.tell(), what was    *)
(* printed and how the call ended.                                         *)
(***************************************************************************)
MaxStream == 9        \* most bytes of the file

PrimitiveReads ==
    {"read_short", "read_ushort", "read_long", "read_ulong", "read_float",
     "read_double", "read_boolean", "read_byte", "read_char"}
ByteOrders == {"little", "big", "native", ""}

\* every read of 4 bytes
FourBytes(read) == 4
\* f.read(n) of each function: the size of its struct format
Width(read) ==
    IF read \in {"read_short", "read_ushort"} THEN 2
    ELSE IF read \in {"read_long", "read_ulong", "read_float"} THEN 4
    ELSE IF read = "read_double" THEN 8
    ELSE 1

\* len(f.read(n)): the bytes there are, up to n
ReadLen(size, tell, n) == IF size - tell < n THEN size - tell ELSE n

PInitRead ==
    /\ p_pc = "call"
    /\ p_in \in {c \in [read : PrimitiveReads, endian : ByteOrders,
                        size : 0..MaxStream, tell : 0..MaxStream] :
                   c.tell <= c.size}
    /\ p_out = [tell |-> p_in.tell, printed |-> "none", result |-> "none"]
    /\ HIdle /\ RIdle /\ DIdle /\ TIdle /\ CIdle /\ OIdle /\ WIdle

\* the branch of a byte order that is neither 'little' nor 'big'
PReadRaise ==
    /\ p_pc = "call" /\ p_in.endian \notin {"little", "big"}
    /\ p_out' = [p_out EXCEPT !.printed = p_out.tell, !.result = "ByteOrderError"]
    /\ p_pc' = "raised"
    /\ UNCHANGED <<p_in, POthers>>

\* data = f.read(n); return s.unpack(data)[0]
PReadUnpack ==
    /\ p_pc = "call" /\ p_in.endian \in {"little", "big"}
    /\ LET got == ReadLen(p_in.size, p_out.tell, Width(p_in.read))
       IN  /\ p_out' = [p_out EXCEPT
                          !.tell = @ + got,
                          !.result = IF got = Width(p_in.read) THEN "value"
                                     ELSE "struct.error"]
           /\ p_pc' = IF got = Width(p_in.read) THEN "returned" ELSE "raised"
    /\ UNCHANGED <<p_in, POthers>>

PNextRead == PReadRaise \/ PReadUnpack

SpecRead == PInitRead /\ [][PNextRead]_vars

\* the widths the kinds have: 2, 2, 4, 4, 4, 8, 1, 1, 1
FixedWidth ==
    [read \in PrimitiveReads |->
        IF read \in {"read_short", "read_ushort"} THEN 2
        ELSE IF read \in {"read_long", "read_ulong", "read_float"} THEN 4
        ELSE IF read = "read_double" THEN 8 ELSE 1]

\* C23 as stated: a primitive read with byte order 'little' or 'big' moves
\* the cursor on by the width of its kind and does nothing else; with
\* another byte order it fails with a byte-order error and reads no byte.
C23_AdvancesByWidth ==
    p_pc # "call" =>
        IF p_in.endian \in {"little", "big"}
        THEN /\ p_out.tell = p_in.tell + FixedWidth[p_in.read]
             /\ p_out.printed = "none"
        ELSE /\ p_out.result = "ByteOrderError" /\ p_out.tell = p_in.tell

\* C23: a primitive read with byte order 'little' or 'big', at a position
\* with at least as many bytes left as the width of its kind, returns a
\* value, moves the cursor on by that width and does nothing else; with
\* fewer bytes left it moves the cursor to the end of the file and fails
\* with struct.error; with another byte order it fails with a byte-order
\* error and reads no byte.
C23_AdvancesByWidthIfPresent ==
    p_pc # "call" =>
        IF p_in.endian \in {"little", "big"}
        THEN /\ p_out.printed = "none"
             /\ IF p_in.size - p_in.tell >= FixedWidth[p_in.read]
                THEN /\ p_out.tell = p_in.tell + FixedWidth[p_in.read]
                     /\ p_out.result = "value" /\ p_pc = "returned"
                ELSE /\ p_out.tell = p_in.size
                     /\ p_out.result = "struct.error" /\ p_pc = "raised"
        ELSE /\ p_out.result = "ByteOrderError" /\ p_out.tell = p_in.tell
             /\ p_pc = "raised"

\* read_double in the middle of a file moved the cursor by 8
C23_Witness ==
    /\ p_pc = "returned" /\ p_in.read = "read_double" /\ p_in.endian = "little"
    /\ p_in.tell = 1 /\ p_out.tell = 9

(***************************************************************************)
(* Loading a SER file: load_ser_file and ser_reader.  p_in is the file:    *)
(* whether it holds spectra or images, the type of the values, the number  *)
(* of elements the header declares, the number of whole elements that are  *)
(* in the file, whether the start of the element behind them is there, and *)
(* the byte order of the machine; p_out is the structured array read and   *)
(* what ser_reader returns.  An element holds two values.                  *)
(***************************************************************************)
MaxElements == 3      \* most elements the header declares

SerFiles ==
    {f \in [record_by : {"spectrum", "image"},
            data_type : {"<u1", "<i4", "<f4", "<f8", "<c8"},
            declared : 1..MaxElements, present : 0..MaxElements,
            partial : BOOLEAN, machine : {"little", "big"}] :
       f.present <= f.declared}

\* the values of element i as they are in the file
Recorded(i) == <<<<"value", i, 1>>, <<"value", i, 2>>>>

\* dc.dtype is np.dtype('f') or dc.dtype is np.dtype('f8'): the dtype of
\* the file is the object numpy keeps for the native type
IsNativeFloat(data_type, machine) ==
    data_type \in {"<f4", "<f8"} /\ machine = "little"

\* dc = dc[..., ::-1, :] of the images; an image here is 2 rows of 1 value
Oriented(record_by, element) ==
    IF record_by = "image" THEN <<element[2], element[1]>> ELSE element

PInitSer ==
    /\ p_pc = "load"
    /\ p_in \in SerFiles
    /\ p_out = [err |-> "none", data |-> <<>>, dc |-> <<>>]
    /\ HIdle /\ RIdle /\ DIdle /\ TIdle /\ CIdle /\ OIdle /\ WIdle

\* load_ser_file: get_data_dtype_list reads the type and the size of the
\* first element, np.fromfile the elements there are, up to the count
PLoadSerFile ==
    /\ p_pc = "load"
    /\ IF p_in.present = 0 /\ ~p_in.partial
       THEN p_out' = [p_out EXCEPT !.err = "struct.error"] /\ p_pc' = "raised"
       ELSE /\ p_out' = [p_out EXCEPT
                           !.data = [i \in 1..p_in.present |-> Recorded(i)]]
            /\ p_pc' = "loaded"
    /\ UNCHANGED <<p_in, POthers>>

\* ser_reader from the axes on: data[...][0] of the calibration, the array
\* of the declared shape and its fill, the reshape and the flip of images
PSerReader ==
    /\ p_pc = "loaded"
    /\ IF p_out.data = <<>>
       THEN p_out' = [p_out EXCEPT !.err = "IndexError"] /\ p_pc' = "raised"
       ELSE /\ p_out' = [p_out EXCEPT !.dc =
                  LET fill == IF IsNativeFloat(p_in.data_type, p_in.machine)
                              THEN "nan" ELSE 0
                      dc == [i \in 1..p_in.declared |->
                               IF i <= Len(p_out.data) THEN p_out.data[i]
                               ELSE <<fill, fill>>]
                  IN  [i \in 1..p_in.declared |-> Oriented(p_in.record_by, dc[i])]]
            /\ p_pc' = "returned"
    /\ UNCHANGED <<p_in, POthers>>

PNextSer == PLoadSerFile \/ PSerReader

SpecSer == PInitSer /\ [][PNextSer]_vars

\* C24: a SER file that declares more elements than it holds is loaded
\* without failing, into an array of the declared shape whose leading part
\* holds the recorded values and whose tail is NaN for a floating point
\* dtype and zero for an integer dtype.
C24_TailFilled ==
    (p_pc \in {"returned", "raised"} /\ p_in.present < p_in.declared
       /\ p_in.data_type # "<c8") =>
        /\ p_pc = "returned"
        /\ Len(p_out.dc) = p_in.declared
        /\ \A i \in 1..p_in.present :
              p_out.dc[i] = Oriented(p_in.record_by, Recorded(i))
        /\ \A i \in (p_in.present + 1)..p_in.declared :
              p_out.dc[i] = IF p_in.data_type \in {"<f4", "<f8"}
                            THEN <<"nan", "nan">> ELSE <<0, 0>>

(***************************************************************************)
(* The migration of the metadata of an HDF5 file of an older format:       *)
(* get_hspy_format_version and the passes of hdfgroup2signaldict.  p_in is *)
(* the file: its version attribute, the name of the metadata group of the  *)
(* experiment, the keys of that group and the results stored beside it;    *)
(* p_out is exp[u'metadata'], exp[u'attributes'], the passes applied so    *)
(* far and the exception raised.  A dictionary is [dict |-> key -> value], *)
(* any other value [leaf |-> value].                                       *)
(***************************************************************************)
Leaf(v) == [leaf |-> v]
Dict(f) == [dict |-> f]
EmptyDict == Dict(<<>>)
Has(d, k) == k \in DOMAIN d.dict
Get(d, k) == d.dict[k]
\* d[k] = v
Put(d, k, v) == Dict((k :> v) @@ d.dict)
\* del d[k]
Del(d, k) == Dict([x \in DOMAIN d.dict \ {k} |-> d.dict[x]])
\* if k not in d: d[k] = {}
WithGroup(d, k) == IF Has(d, k) THEN d ELSE Put(d, k, EmptyDict)

\* the value is copied into the group and the old key stays
CopyInto(d0, old, group, new) ==
    The({IF ~Has(d, old) THEN d
         ELSE Put(d, group, Put(Get(WithGroup(d, group), group), new,
                                Get(d, old))) : d \in {d0}})
\* if old in d: (if group not in d: d[group] = {}); d[group][new] = d[old];
\* del d[old]
MoveInto(d0, old, group, new) ==
    The({IF ~Has(d, old) THEN d
         ELSE Del(Put(d, group, Put(Get(WithGroup(d, group), group), new,
                                    Get(d, old))), old) : d \in {d0}})

\* if old in d: d[new] = d[old]; del d[old]
Rename(d0, old, new) ==
    The({IF ~Has(d, old) THEN d ELSE Del(Put(d, new, Get(d, old)), old) :
           d \in {d0}})

\* a StrictVersion as major and minor number
Version(major, minor) == <<major, minor>>
VersionAtMost(a, b) == a[1] < b[1] \/ (a[1] = b[1] /\ a[2] <= b[2])
\* a < b of StrictVersion
VersionBelow(a, b) == a[1] < b[1] \/ (a[1] = b[1] /\ a[2] < b[2])

\* get_hspy_format_version of a file with an Experiments group
FormatVersion(file) == IF file.stamped THEN file.version ELSE Version(1, 0)

\* the pass for files below 1.1 on the metadata
Before11(md) ==
    MoveInto(MoveInto(md, "signal", "Signal", "signal_type"),
             "name", "General", "title")

\* the pass for files below 1.1 on the attributes
Results11(attributes, keys) ==
    LET learned == IF "mva_results" \in keys
                   THEN ("learning_results" :> "mva_results") @@ attributes
                   ELSE attributes
    IN  IF "peak_mva_results" \in keys
        THEN ("peak_learning_results" :> "peak_mva_results") @@ learned
        ELSE learned

\* _internal_parameters becomes _HyperSpy, its stacking_history and
\* folding get a capital
Internal12(md0) ==
    The({IF ~Has(md, "_internal_parameters") THEN md
         ELSE Put(Del(md, "_internal_parameters"), "_HyperSpy",
                  Rename(Rename(Get(md, "_internal_parameters"),
                                "stacking_history", "Stacking_history"),
                         "folding", "Folding")) : md \in {md0}})

\* the dwell time and the exposure of the microscope go to its EELS group
EelsTimes(tem) ==
    LET Into(t0, key) ==
            The({IF ~Has(t, key) THEN t
                 ELSE Del(Put(t, "EELS", Put(Get(t, "EELS"), key, Get(t, key))),
                          key) : t \in {t0}})
    IN  Into(Into(Into(Into(tem, "dwell_time"), "dwell_time_units"),
                  "exposure"), "exposure_units")

\* if u"Detector" not in tem: tem[u"Detector"] = {}
\* tem[u"Detector"] = tem[u"EELS"]; del tem[u"EELS"]
EelsAsDetector(tem) == Del(Put(tem, "Detector", Get(tem, "EELS")), "EELS")

\* the EELS block of the microscope
Eels12(tem0) ==
    The({IF ~Has(tem, "EELS") THEN tem
         ELSE The({EelsAsDetector(timed) : timed \in {EelsTimes(tem)}}) :
           tem \in {tem0}})

\* the EDS block of a microscope
Eds12(tem0) ==
    The({IF ~Has(tem, "EDS") THEN tem
         ELSE Del(Put(tem, "Detector",
                      Put(Get(WithGroup(tem, "Detector"), "Detector"), "EDS",
                          Get(tem, "EDS"))), "EDS") : tem \in {tem0}})

\* TEM goes under Acquisition_instrument, its EELS and EDS under Detector
Tem12(md0) ==
    The({IF ~Has(md, "TEM") THEN md
         ELSE Del(Put(md, "Acquisition_instrument",
                      Put(Get(WithGroup(md, "Acquisition_instrument"),
                              "Acquisition_instrument"),
                          "TEM", Eds12(Eels12(Get(md, "TEM"))))), "TEM") :
           md \in {md0}})

\* SEM goes under Acquisition_instrument, its EDS under Detector
Sem12(md0) ==
    The({IF ~Has(md, "SEM") THEN md
         ELSE Del(Put(md, "Acquisition_instrument",
                      Put(Get(WithGroup(md, "Acquisition_instrument"),
                              "Acquisition_instrument"),
                          "SEM", Eds12(Get(md, "SEM")))), "SEM") :
           md \in {md0}})

\* Sample.Xray_lines becomes Sample.xray_lines
Sample12(md0) ==
    The({IF Has(md, "Sample") /\ Has(Get(md, "Sample"), "Xray_lines")
         THEN Put(md, "Sample", Rename(Get(md, "Sample"), "Xray_lines", "xray_lines"))
         ELSE md : md \in {md0}})

RECURSIVE Grouped12(_, _, _)
\* for key in keys: the key goes into the group
Grouped12(md, group, keys) ==
    IF keys = <<>> THEN md
    ELSE Grouped12(MoveInto(md, Head(keys), group, Head(keys)), group, Tail(keys))

\* the pass for files below 1.2
Before12(md) ==
    Grouped12(
      Grouped12(
        Sample12(Sem12(Tem12(
          MoveInto(Internal12(md), "Variance_estimation", "Noise_properties",
                   "Variance_linear_model")))),
        "General", <<"title", "date", "time", "original_filename">>),
      "Signal", <<"record_by", "signal_origin", "signal_type">>)

\* the groups of a microscope of the files read
TemGroups ==
    {Dict([k \in keys |->
             IF k = "EELS" THEN Dict("aperture" :> Leaf("eels value"))
             ELSE IF k = "EDS" THEN Dict("azimuth" :> Leaf("eds value"))
             ELSE IF k = "Detector" THEN Dict("gain" :> Leaf("detector value"))
             ELSE Leaf("value of " \o k)]) :
       keys \in SUBSET {"EELS", "EDS", "Detector", "dwell_time"}}

\* the metadata of the files read: flat keys of the old formats and a
\* microscope, or none
Metadatas ==
    {Dict([k \in flat |-> Leaf("value of " \o k)] @@ tem) :
       flat \in SUBSET {"signal", "name", "title", "signal_type"},
       tem \in {<<>>} \cup {"TEM" :> t : t \in TemGroups}}

FormatVersions ==
    {Version(1, 0), Version(1, 1), Version(1, 2), Version(1, 3), Version(2, 0)}

PInitMigrate ==
    /\ p_pc = "version"
    /\ p_in \in [stamped : BOOLEAN, version : FormatVersions,
                 group : {"mapped_parameters", "metadata"},
                 metadata : Metadatas,
                 results : {{}, {"mva_results"}}]
    /\ p_out = [version |-> Version(0, 0), metadata |-> EmptyDict,
                attributes |-> <<>>, applied |-> <<>>, err |-> "none"]
    /\ HIdle /\ RIdle /\ DIdle /\ TIdle /\ CIdle /\ OIdle /\ WIdle

\* current_file_version = get_hspy_format_version(f), and the metadata
\* group of the experiment read under the name that version has for it
PReadMetadata ==
    /\ p_pc = "version"
    /\ LET current == FormatVersion(p_in)
           name == IF VersionBelow(current, Version(1, 2))
                   THEN "mapped_parameters" ELSE "metadata"
       IN  IF name # p_in.group
           THEN /\ p_out' = [p_out EXCEPT !.version = current, !.err = "KeyError"]
                /\ p_pc' = "raised"
           ELSE /\ p_out' = [p_out EXCEPT !.version = current,
                                          !.metadata = p_in.metadata]
                /\ p_pc' = "1.1"
    /\ UNCHANGED <<p_in, POthers>>

\* if current_file_version < StrictVersion("1.1"): ...
PBefore11 ==
    /\ p_pc = "1.1"
    /\ p_out' = IF VersionBelow(p_out.version, Version(1, 1))
                THEN [p_out EXCEPT
                        !.metadata = Before11(@),
                        !.attributes = Results11(@, p_in.results),
                        !.applied = Append(@, "1.1")]
                ELSE p_out
    /\ p_pc' = "1.2"
    /\ UNCHANGED <<p_in, POthers>>

\* if current_file_version < StrictVersion("1.2"): ...; return exp
PBefore12 ==
    /\ p_pc = "1.2"
    /\ p_out' = IF VersionBelow(p_out.version, Version(1, 2))
                THEN [p_out EXCEPT
                        !.metadata = Before12(@),
                        !.applied = Append(@, "1.2")]
                ELSE p_out
    /\ p_pc' = "returned"
    /\ UNCHANGED <<p_in, POthers>>

PNextMigrate == PReadMetadata \/ PBefore11 \/ PBefore12

SpecMigrate == PInitMigrate /\ [][PNextMigrate]_vars

\* a file of a format below 1.1 that stores the flat keys signal and name
\* was loaded
OldFlatKeysLoaded ==
    /\ p_pc = "returned" /\ p_out.version = <<1, 0>>
    /\ Has(p_in.metadata, "signal") /\ Has(p_in.metadata, "name")

\* C25 as stated: a file of an older format that stores the flat keys
\* signal and name loads with their values at Signal.signal_type and at
\* General.title, and without the flat keys.
C25_FlatKeysRemapped ==
    OldFlatKeysLoaded =>
        /\ ~Has(p_out.metadata, "signal") /\ ~Has(p_out.metadata, "name")
        /\ Get(Get(p_out.metadata, "Signal"), "signal_type")
              = Get(p_in.metadata, "signal")
        /\ Get(Get(p_out.metadata, "General"), "title")
              = Get(p_in.metadata, "name")

\* C25: a file of a format below 1.1 that stores the flat keys signal and
\* name loads without them; Signal.signal_type holds the value of signal
\* unless the file also stores a flat signal_type, whose value it then
\* holds, and General.title holds the value of name unless the file also
\* stores a flat title, whose value it then holds.
C25_FlatKeysRemappedUnlessNewer ==
    OldFlatKeysLoaded =>
        /\ \A k \in {"signal", "name", "title", "signal_type"} :
              ~Has(p_out.metadata, k)
        /\ Get(Get(p_out.metadata, "Signal"), "signal_type")
              = IF Has(p_in.metadata, "signal_type")
                THEN Get(p_in.metadata, "signal_type")
                ELSE Get(p_in.metadata, "signal")
        /\ Get(Get(p_out.metadata, "General"), "title")
              = IF Has(p_in.metadata, "title") THEN Get(p_in.metadata, "title")
                ELSE Get(p_in.metadata, "name")

\* a file without version attribute that stores signal and name and
\* neither title nor signal_type was loaded
C25_Witness ==
    /\ OldFlatKeysLoaded /\ ~p_in.stamped
    /\ DOMAIN p_in.metadata.dict = {"signal", "name"}
    /\ Get(Get(p_out.metadata, "General"), "title") = Leaf("value of name")
    /\ Get(Get(p_out.metadata, "Signal"), "signal_type") = Leaf("value of signal")

\* the passes for a version: those of the versions above it, in order
PassesFor(version) ==
    (IF version \in {<<1, 0>>} THEN <<"1.1">> ELSE <<>>)
    \o (IF version \in {<<1, 0>>, <<1, 1>>} THEN <<"1.2">> ELSE <<>>)

\* C26: when a file is loaded each migration pass is applied exactly when
\* the version of the file is below the version that brought the change,
\* the passes are applied one on top of the other in increasing order of
\* version, and a file of the current version has no pass applied.
C26_PassesInVersionOrder ==
    /\ p_pc = "1.2" => p_out.applied = SubSeq(PassesFor(p_out.version), 1,
                                               Len(p_out.applied))
    /\ p_pc = "returned" =>
          /\ p_out.applied = PassesFor(p_out.version)
          /\ p_out.version = <<1, 0>> =>
                p_out.metadata = Before12(Before11(p_in.metadata))
          /\ p_out.version = <<1, 1>> => p_out.metadata = Before12(p_in.metadata)
          /\ p_out.version \in {<<1, 2>>, <<1, 3>>, <<2, 0>>} =>
                /\ p_out.metadata = p_in.metadata /\ p_out.attributes = <<>>

\* a version 1.0 file with the keys of both passes got both, and a file of
\* the current version none
C26_Witness ==
    /\ p_pc = "returned" /\ p_in.stamped /\ p_out.version = <<1, 0>>
    /\ p_out.applied = <<"1.1", "1.2">>
    /\ Has(p_in.metadata, "name") /\ Has(p_in.metadata, "TEM")
    /\ Has(p_out.metadata, "General") /\ Has(p_out.metadata, "Acquisition_instrument")

\* the microscope group of the metadata returned
MigratedTem == Get(Get(p_out.metadata, "Acquisition_instrument"), "TEM")

\* C29: the migration of a file below 1.2 moves the instrument metadata
\* without losing a value: the old TEM.EELS group is at
\* Acquisition_instrument.TEM.Detector.EELS, the old TEM.EDS group at
\* Acquisition_instrument.TEM.Detector.EDS, and every entry of a Detector
\* group that was under TEM is still there.
C29_InstrumentReparented ==
    (p_pc = "returned" /\ p_out.version \in {<<1, 0>>, <<1, 1>>}
       /\ Has(p_in.metadata, "TEM")) =>
        LET old == Get(p_in.metadata, "TEM")
        IN  /\ Has(old, "EDS") =>
                  /\ Has(MigratedTem, "Detector")
                  /\ Has(Get(MigratedTem, "Detector"), "EDS")
                  /\ Get(Get(MigratedTem, "Detector"), "EDS") = Get(old, "EDS")
            /\ Has(old, "Detector") =>
                  /\ Has(MigratedTem, "Detector")
                  /\ \A k \in DOMAIN Get(old, "Detector").dict :
                        /\ Has(Get(MigratedTem, "Detector"), k)
                        /\ Get(Get(MigratedTem, "Detector"), k)
                              = Get(Get(old, "Detector"), k)
            /\ Has(old, "EELS") =>
                  /\ Has(MigratedTem, "Detector")
                  /\ Has(Get(MigratedTem, "Detector"), "EELS")
                  /\ \A k \in DOMAIN Get(old, "EELS").dict :
                        /\ Has(Get(Get(MigratedTem, "Detector"), "EELS"), k)
                        /\ Get(Get(Get(MigratedTem, "Detector"), "EELS"), k)
                              = Get(Get(old, "EELS"), k)

\* ---------------------------------------------------------------------
\* Files loaded one after another by the file_reader of their format
\* (io_plugins/digital_micrograph.py, tiff.py, image.py).  Dictionaries
\* that the code shares between calls are objects of a heap; the
\* dictionaries returned hold references to them.
\* ---------------------------------------------------------------------
MaxFiles == 2
MaxImages == 2

\* the images of a DM file, by what ImageObject derives from their tags
DmImages ==
    {[title |-> "A", record_by |-> "image", signal_type |-> "",
      to_spectrum |-> FALSE],
     [title |-> "B", record_by |-> "spectrum", signal_type |-> "EELS",
      to_spectrum |-> TRUE]}

LoadFiles ==
    [kind : {"dm3"}, name : {"one.dm3", "two.dm3"},
     images : SeqsUpTo(DmImages, MaxImages) \ {<<>>}]
    \cup [kind : {"tif"}, name : {"page.tif"}, is_rgb : BOOLEAN]
    \cup [kind : {"png"}, name : {"photo.png"},
          channels : {"one", "three equal", "three"}]

\* the reference to an object of the heap
Ref(object, n) == [ref |-> object, n |-> n]
\* the object a stored value stands for: the one it refers to, or itself
Deref(out, v) ==
    IF "ref" \notin DOMAIN v THEN v
    ELSE IF v.ref = "get_metadata.metadata" THEN out.default
    ELSE out.tags_dicts[v.n]

\* ImageObject.get_metadata(metadata): General and Signal are made when
\* missing, and title, record_by and signal_type are stored in them
GetMetadata(image, metadata) ==
    The({Put(Put(md, "General", Put(Get(md, "General"), "title",
                                    Leaf(image.title))),
             "Signal", Put(Put(Get(md, "Signal"), "record_by",
                               Leaf(image.record_by)),
                           "signal_type", Leaf(image.signal_type))) :
           md \in {WithGroup(WithGroup(metadata, "General"), "Signal")}})

\* mp[u'General'][u'original_filename'] = os.path.split(filename)[1]
WithFilename(mp, name) ==
    Put(mp, "General", Put(Get(mp, "General"), "original_filename", Leaf(name)))

\* what a returned dictionary says now, read through its references
Reported(out, d) ==
    [k \in DOMAIN d.dict \cap {"metadata", "original_metadata"} |->
        Deref(out, d.dict[k])]

PInitLoad ==
    /\ p_pc = "file"
    /\ p_in \in SeqsUpTo(LoadFiles, MaxFiles) \ {<<>>}
    /\ p_out = [file |-> 1, image |-> 1, default |-> EmptyDict,
                tags_dicts |-> <<>>, imd |-> <<>>, loaded |-> <<>>,
                reported |-> <<>>]
    /\ HIdle /\ RIdle /\ DIdle /\ TIdle /\ CIdle /\ OIdle /\ WIdle

\* digital_micrograph.file_reader up to its loop: the file is parsed,
\* imd = [], and the ImageList of dm.tags_dict is replaced by {}
PDmParse ==
    /\ p_pc = "file"
    /\ p_out.file <= Len(p_in)
    /\ p_in[p_out.file].kind = "dm3"
    /\ p_out' = [p_out EXCEPT
          !.tags_dicts = Append(@,
              Dict("ImageList" :> EmptyDict
                   @@ "DocumentObjectList" :> Leaf(p_in[p_out.file].name))),
          !.imd = <<>>, !.image = 1]
    /\ p_pc' = "image"
    /\ UNCHANGED <<p_in, POthers>>

\* one turn of the loop over the images of the file
PDmImage ==
    /\ p_pc = "image"
    /\ p_out.image <= Len(p_in[p_out.file].images)
    /\ \E image \in {p_in[p_out.file].images[p_out.image]},
          n \in {Len(p_out.tags_dicts)} :
          \E mp \in {WithFilename(GetMetadata(image, p_out.default),
                                  p_in[p_out.file].name)} :
             p_out' = [p_out EXCEPT
                !.tags_dicts[n] =
                    Put(@, "ImageList",
                        Put(Get(@, "ImageList"), "TagGroup0",
                            Leaf(<<"tags of", p_in[p_out.file].name,
                                   p_out.image>>))),
                !.default = mp,
                !.imd = Append(@,
                    Dict("data" :> Leaf(<<"data of", p_out.image>>)
                         @@ "axes" :> Leaf(<<"axes of", p_out.image>>)
                         @@ "metadata" :> Ref("get_metadata.metadata", 0)
                         @@ "original_metadata" :> Ref("dm.tags_dict", n)
                         @@ "post_process" :>
                              Leaf(IF image.to_spectrum
                                   THEN <<"to_spectrum", "squeeze">>
                                   ELSE <<"squeeze">>)
                         @@ "mapping" :> Leaf("mapping"))),
                !.reported = Append(@,
                    [metadata |-> mp,
                     original_metadata |->
                        Put(p_out.tags_dicts[n], "ImageList",
                            Put(Get(p_out.tags_dicts[n], "ImageList"),
                                "TagGroup0",
                                Leaf(<<"tags of", p_in[p_out.file].name,
                                       p_out.image>>)))]),
                !.image = @ + 1]
    /\ UNCHANGED <<p_pc, p_in, POthers>>

\* return imd
PDmReturn ==
    /\ p_pc = "image"
    /\ p_out.image > Len(p_in[p_out.file].images)
    /\ p_out' = [p_out EXCEPT !.loaded = @ \o p_out.imd, !.imd = <<>>,
                              !.file = @ + 1]
    /\ p_pc' = "file"
    /\ UNCHANGED <<p_in, POthers>>

\* tiff.file_reader: axes are computed, the dictionary returned has data,
\* original_metadata and metadata
PTiffReader ==
    /\ p_pc = "file"
    /\ p_out.file <= Len(p_in)
    /\ p_in[p_out.file].kind = "tif"
    /\ \E d \in {Dict("data" :> Leaf(IF p_in[p_out.file].is_rgb
                                     THEN "rgbx array" ELSE "array")
                      @@ "original_metadata" :> Dict("tags" :> Leaf("values"))
                      @@ "metadata" :>
                           Dict("General" :>
                                   Dict("original_filename" :>
                                           Leaf(p_in[p_out.file].name))
                                @@ "Signal" :>
                                   Dict("signal_type" :> Leaf("")
                                        @@ "record_by" :> Leaf("image"))))} :
          p_out' = [p_out EXCEPT !.loaded = Append(@, d),
                                 !.reported = Append(@, Reported(p_out, d)),
                                 !.file = @ + 1]
    /\ UNCHANGED <<p_pc, p_in, POthers>>

\* image.file_reader: the dictionary returned has data and metadata
PImageReader ==
    /\ p_pc = "file"
    /\ p_out.file <= Len(p_in)
    /\ p_in[p_out.file].kind = "png"
    /\ \E d \in {Dict("data" :>
                        Leaf(CASE p_in[p_out.file].channels = "one" -> "array"
                               [] p_in[p_out.file].channels = "three equal"
                                    -> "channel 0"
                               [] OTHER -> "rgbx array")
                      @@ "metadata" :>
                           Dict("General" :>
                                   Dict("original_filename" :>
                                           Leaf(p_in[p_out.file].name))
                                @@ "Signal" :>
                                   Dict("signal_type" :> Leaf("")
                                        @@ "record_by" :> Leaf("image"))))} :
          p_out' = [p_out EXCEPT !.loaded = Append(@, d),
                                 !.reported = Append(@, Reported(p_out, d)),
                                 !.file = @ + 1]
    /\ UNCHANGED <<p_pc, p_in, POthers>>

PNextLoad == PDmParse \/ PDmImage \/ PDmReturn \/ PTiffReader \/ PImageReader

SpecLoad == PInitLoad /\ [][PNextLoad]_vars

\* C27: every dictionary a format reader returns for a dataset has all
\* four of data, axes, metadata and original_metadata.
C27_FourKeys ==
    p_pc \in {"file", "image"} /\ DOMAIN p_out.loaded # {} =>
        \A i \in DOMAIN p_out.loaded :
            {"data", "axes", "metadata", "original_metadata"}
                \subseteq DOMAIN p_out.loaded[i].dict

\* C28: each signal dictionary returned by the DM reader has its own
\* metadata and original_metadata: the title, record_by, signal_type,
\* original_filename and image tags it reported for its image stay as
\* they were while later images and later files are read.
C28_MetadataNotShared ==
    p_pc \in {"file", "image"} /\ DOMAIN p_out.loaded # {} =>
        \A i \in DOMAIN p_out.loaded :
            "mapping" \in DOMAIN p_out.loaded[i].dict =>
                /\ Deref(p_out, p_out.loaded[i].dict["metadata"])
                      = p_out.reported[i].metadata
                /\ Deref(p_out, p_out.loaded[i].dict["original_metadata"])
                      = p_out.reported[i].original_metadata

\* ---------------------------------------------------------------------
\* TiffWriter.save, byte by byte: the entries that addtag packs for the
\* caller's extra tags, the directory written from them and the values
\* written behind it (external/tifffile.py).
\* ---------------------------------------------------------------------
MaxExtra == 2
MaxCount == 3

\* TiffWriter.TYPES
TYPES ==
    "B" :> 1 @@ "s" :> 2 @@ "H" :> 3 @@ "I" :> 4 @@ "2I" :> 5 @@ "b" :> 6
    @@ "h" :> 8 @@ "i" :> 9 @@ "f" :> 11 @@ "d" :> 12 @@ "Q" :> 16
    @@ "q" :> 17

\* struct.calcsize of a format character
CalcSize(dtype) ==
    CASE dtype \in {"B", "b", "s"} -> 1
      [] dtype \in {"H", "h"} -> 2
      [] dtype \in {"I", "i", "f"} -> 4
      [] dtype \in {"d", "Q", "q"} -> 8

\* the formats of a classic and of a BigTIFF writer (TiffWriter.__init__)
PackFormat(bigtiff, byteorder) ==
    IF bigtiff
    THEN [byteorder |-> byteorder, offset_size |-> 8, tag_size |-> 20,
          numtag_format |-> "Q", offset_format |-> "Q"]
    ELSE [byteorder |-> byteorder, offset_size |-> 4, tag_size |-> 12,
          numtag_format |-> "H", offset_format |-> "I"]

\* the IEEE 754 bytes of a float, most significant first
FloatBytes(dtype, value) ==
    IF dtype = "f"
    THEN IF value = "1.0" THEN <<63, 128, 0, 0>> ELSE <<63, 0, 0, 0>>
    ELSE IF value = "1.0" THEN <<63, 240, 0, 0, 0, 0, 0, 0>>
         ELSE <<63, 224, 0, 0, 0, 0, 0, 0>>

\* the bytes of one item, most significant first
ItemBytes(dtype, value) ==
    IF dtype \in {"f", "d"} THEN FloatBytes(dtype, value)
    ELSE [i \in 1..CalcSize(dtype) |->
            IF CalcSize(dtype) - i >= 4 THEN (IF value < 0 THEN 255 ELSE 0)
            ELSE (value \div (256 ^ (CalcSize(dtype) - i))) % 256]

\* struct.pack(byteorder + dtype, value)
PackItem(byteorder, dtype, value) ==
    IF byteorder = ">" THEN ItemBytes(dtype, value)
    ELSE [i \in 1..CalcSize(dtype) |->
            ItemBytes(dtype, value)[CalcSize(dtype) + 1 - i]]

RECURSIVE PackItems(_, _, _)
\* struct.pack(byteorder + str(count) + dtype, *value); for 's' the
\* value is one string of count bytes
PackItems(byteorder, dtype, value) ==
    IF dtype = "s" THEN value[1]
    ELSE IF value = <<>> THEN <<>>
    ELSE PackItem(byteorder, dtype, Head(value))
         \o PackItems(byteorder, dtype, Tail(value))

\* struct.pack('%is' % n, bytes): cut to n bytes or filled with NUL
PackS(n, bytes) == [i \in 1..n |-> IF i <= Len(bytes) THEN bytes[i] ELSE 0]

\* struct.unpack of an unsigned integer
UnpackInt(byteorder, bytes) ==
    LET at(i) == IF byteorder = ">" THEN bytes[Len(bytes) + 1 - i] ELSE bytes[i]
    IN  IF \E i \in 5..Len(bytes) : at(i) # 0 THEN 0 - 1
        ELSE IF at(4) >= 128 THEN 0 - 1
        ELSE at(1) + 256 * at(2) + 65536 * at(3) + 16777216 * at(4)

\* addtag(code, dtype, count, value, writeonce): the packed entry and the
\* packed value that goes behind the directory, if any
AddTagPacked(fmt, code, dtype0, count0, value0, writeonce) ==
    LET value == IF dtype0 = "s" THEN <<value0 \o <<0>>>> ELSE value0
        rawcount == IF dtype0 = "s" THEN Len(value[1]) ELSE count0
        count == IF dtype0 = "s" THEN rawcount
                 ELSE IF dtype0 = "2I" THEN count0 * 2 ELSE count0
        dtype == IF dtype0 = "2I" THEN "I" ELSE dtype0
        head == PackItem(fmt.byteorder, "H", code)
                \o PackItem(fmt.byteorder, "H", TYPES[dtype0])
                \o PackItem(fmt.byteorder, fmt.offset_format, rawcount)
    IN  IF count = 1
        THEN [code |-> code,
              ifdentry |-> head \o PackS(fmt.offset_size,
                  IF dtype = "s" THEN value[1]
                  ELSE PackItem(fmt.byteorder, dtype, value[1])),
              ifdvalue |-> <<>>, writeonce |-> writeonce]
        ELSE IF CalcSize(dtype) * count <= fmt.offset_size
        THEN [code |-> code,
              ifdentry |-> head \o PackS(fmt.offset_size,
                  PackItems(fmt.byteorder, dtype, value)),
              ifdvalue |-> <<>>, writeonce |-> writeonce]
        ELSE [code |-> code,
              ifdentry |-> head \o PackItem(fmt.byteorder, fmt.offset_format, 0),
              ifdvalue |-> PackItems(fmt.byteorder, dtype, value),
              writeonce |-> writeonce]

\* fh.seek(pos); fh.write(bytes)
WriteAt(file, pos, bytes) ==
    [i \in 1..Max(Len(file), pos + Len(bytes)) |->
        IF i > pos /\ i <= pos + Len(bytes) THEN bytes[i - pos]
        ELSE IF i <= Len(file) THEN file[i] ELSE 0]

\* the n bytes of the file at pos
BytesAt(file, pos, n) ==
    IF pos < 0 \/ pos + n > Len(file) THEN <<>>
    ELSE [i \in 1..n |-> file[pos + i]]

\* the header TiffWriter.__init__ writes, with the empty pointer to the
\* first directory
WriterHeader(bigtiff, byteorder) ==
    (IF byteorder = "<" THEN <<73, 73>> ELSE <<77, 77>>)
    \o (IF bigtiff
        THEN PackItem(byteorder, "H", 43) \o PackItem(byteorder, "H", 8)
             \o PackItem(byteorder, "H", 0) \o PackItem(byteorder, "Q", 0)
        ELSE PackItem(byteorder, "H", 42) \o PackItem(byteorder, "I", 0))

\* values a caller passes with an extra tag of a type
SampleValues(dtype) ==
    CASE dtype \in {"B"} -> <<7, 200, 9, 1, 2, 3>>
      [] dtype \in {"b"} -> <<7, 0 - 2, 9, 1, 2, 3>>
      [] dtype \in {"H"} -> <<258, 7, 515, 1, 2, 3>>
      [] dtype \in {"h"} -> <<258, 0 - 2, 515, 1, 2, 3>>
      [] dtype \in {"I", "2I", "Q"} -> <<16909060, 7, 84281096, 1, 2, 3>>
      [] dtype \in {"i", "q"} -> <<16909060, 0 - 2, 84281096, 1, 2, 3>>
      [] dtype \in {"f", "d"} -> <<"1.0", "0.5", "1.0", "0.5", "1.0", "0.5">>
      [] dtype \in {"s"} -> <<97, 98, 99, 100, 101, 102>>

\* an extra tag (dtype, count, value) of the caller; a string has
\* count - 1 characters
ExtraTag(dtype, count) ==
    [dtype |-> dtype, count |-> count,
     value |-> SubSeq(SampleValues(dtype), 1,
                      IF dtype = "s" THEN 2 * (count - 1)
                      ELSE IF dtype = "2I" THEN 2 * count ELSE count)]

ExtraTags == {ExtraTag(dtype, count) : dtype \in DOMAIN TYPES, count \in 1..MaxCount}

\* the code of the i-th extra tag: private codes in ascending order
ExtraCode(i) == 65000 + i

PInitAddTag ==
    /\ p_pc = "addtag"
    /\ p_in \in [bigtiff : BOOLEAN, byteorder : {"<", ">"},
                 extratags : SeqsUpTo(ExtraTags, MaxExtra) \ {<<>>}]
    /\ p_out = [tags |-> <<>>, file |-> WriterHeader(p_in.bigtiff, p_in.byteorder),
                ifd_offset |-> IF p_in.bigtiff THEN 8 ELSE 4,
                tag_offset |-> 0, patched |-> 0]
    /\ HIdle /\ RIdle /\ DIdle /\ TIdle /\ CIdle /\ OIdle /\ WIdle

\* for t in extratags: addtag(*t), one tag
PAddExtraTag ==
    /\ p_pc = "addtag"
    /\ Len(p_out.tags) < Len(p_in.extratags)
    /\ \E i \in {Len(p_out.tags) + 1} :
          p_out' = [p_out EXCEPT !.tags = Append(@,
              AddTagPacked(PackFormat(p_in.bigtiff, p_in.byteorder),
                           ExtraCode(i), p_in.extratags[i].dtype,
                           p_in.extratags[i].count, p_in.extratags[i].value,
                           FALSE))]
    /\ UNCHANGED <<p_pc, p_in, POthers>>

\* the pointer at ifd_offset is set to the end of the file, and the
\* number of tags, the entries and an empty next pointer are written
PWriteEntries ==
    /\ p_pc = "addtag"
    /\ Len(p_out.tags) = Len(p_in.extratags)
    /\ \E fmt \in {PackFormat(p_in.bigtiff, p_in.byteorder)},
          pos \in {Len(p_out.file)} :
          \E pointed \in {WriteAt(p_out.file, p_out.ifd_offset,
                             PackItem(fmt.byteorder, fmt.offset_format, pos))} :
          \E directory \in {WriteAt(pointed, pos,
                PackItem(fmt.byteorder, fmt.numtag_format, Len(p_out.tags))
                \o Concat([t \in DOMAIN p_out.tags |-> p_out.tags[t].ifdentry])
                \o PackItem(fmt.byteorder, fmt.offset_format, 0))} :
             p_out' = [p_out EXCEPT
                !.file = directory,
                !.tag_offset = pos + CalcSize(fmt.numtag_format),
                !.ifd_offset = Len(directory) - fmt.offset_size]
    /\ p_pc' = "values"
    /\ UNCHANGED <<p_in, POthers>>

\* one turn of the loop over the tags: a value kept outside its entry
\* is written at the end of the file and its position into the entry
PWriteValue ==
    /\ p_pc = "values"
    /\ p_out.patched < Len(p_out.tags)
    /\ \E fmt \in {PackFormat(p_in.bigtiff, p_in.byteorder)},
          tagindex \in {p_out.patched}, pos \in {Len(p_out.file)} :
          \E tag \in {p_out.tags[tagindex + 1]} :
             p_out' = [p_out EXCEPT
                !.file = IF tag.ifdvalue = <<>> THEN @
                         ELSE The({WriteAt(entry, pos, tag.ifdvalue) :
                                entry \in {WriteAt(@,
                                    p_out.tag_offset + tagindex * fmt.tag_size
                                        + fmt.offset_size + 4,
                                    PackItem(fmt.byteorder, fmt.offset_format,
                                             pos))}}),
                !.patched = @ + 1]
    /\ UNCHANGED <<p_pc, p_in, POthers>>

\* all values are written
PTagsWritten ==
    /\ p_pc = "values"
    /\ p_out.patched = Len(p_out.tags)
    /\ p_pc' = "written"
    /\ UNCHANGED <<p_in, p_out, POthers>>

PNextAddTag == PAddExtraTag \/ PWriteEntries \/ PWriteValue \/ PTagsWritten

SpecAddTag == PInitAddTag /\ [][PNextAddTag]_vars

\* the bytes of the value of the i-th extra tag as TIFF encodes them
EncodedValue(i) ==
    IF p_in.extratags[i].dtype = "s" THEN p_in.extratags[i].value \o <<0>>
    ELSE PackItems(p_in.byteorder,
                   IF p_in.extratags[i].dtype = "2I" THEN "I"
                   ELSE p_in.extratags[i].dtype,
                   p_in.extratags[i].value)

\* the value field of the i-th entry of the directory in the file
ValueField(i) ==
    BytesAt(p_out.file,
            p_out.tag_offset
              + (i - 1) * PackFormat(p_in.bigtiff, p_in.byteorder).tag_size
              + PackFormat(p_in.bigtiff, p_in.byteorder).offset_size + 4,
            PackFormat(p_in.bigtiff, p_in.byteorder).offset_size)

\* C30: a tag value is kept in its directory entry only if its encoded
\* bytes fit the slot of 4 bytes (classic) or 8 bytes (BigTIFF);
\* otherwise it is written behind the directory and the entry holds its
\* position, so that every byte of every value, extra tags of any type
\* and count included, is in the file.
C30_NoValueTruncated ==
    p_pc = "written" =>
        \A i \in DOMAIN p_in.extratags :
            IF Len(EncodedValue(i)) <= Len(ValueField(i))
            THEN /\ p_out.tags[i].ifdvalue = <<>>
                 /\ SubSeq(ValueField(i), 1, Len(EncodedValue(i)))
                       = EncodedValue(i)
            ELSE /\ p_out.tags[i].ifdvalue # <<>>
                 /\ BytesAt(p_out.file,
                            UnpackInt(p_in.byteorder, ValueField(i)),
                            Len(EncodedValue(i))) = EncodedValue(i)

====
